---------------------------- MODULE Spec2Model ----------------------------
(***************************************************************************)
(* A model of the thai-smartcard adapter: ThaiIDCardReader.readCard, its   *)
(* retrying send (sendAPDU), the ordered field reads of readCardData, the  *)
(* field parsers, and the transmit layer of the Card wrapper.              *)
(*                                                                         *)
(* Bytes are integers 0..255 and buffers are sequences of bytes.  Strings  *)
(* are sequences of UTF-16 code units (integers), so that includes(),      *)
(* trim() and the decoders are computed on characters.                     *)
(***************************************************************************)
EXTENDS Integers, Sequences, FiniteSets, TLC

(***************************************************************************)
(* Bounds of the model (not program constants).                            *)
(***************************************************************************)
\* photo chunks whose data the card may answer in more than one way
VarChunks == 1
\* entries kept of the order in which concurrent calls reach one reader
MaxBusOrder == 3
\* longest buffer given to formatDate on its own
MaxDateLen == 10
\* longest buffer given to parseThaiText on its own
MaxTextLen == 3
\* most pieces of a fault text given to the catch block on its own
MaxFragments == 2
\* most binaries present on disk when loadBinding runs
MaxOnDisk == 2

(***************************************************************************)
(* Program constants.                                                      *)
(***************************************************************************)
APDU_DELAY_MS == 30
SELECT_DELAY_MS == 50
CARD_READY_DELAY_MS == 200
\* the literal of both setTimeout calls in sendAPDU
RETRY_DELAY_MS == 100
\* default of sendAPDU's parameter maxRetries
MAX_RETRIES == 3
\* bound of the photo loop in readCardData
PHOTO_PARTS == 20
\* number of field commands (CID .. EXPIRE)
NUM_FIELDS == 8
\* default of the option timeout, in the constructor
DEFAULT_TIMEOUT == 30000
\* the cap of the waitForCard timeout, in readCard
WAIT_CAP_MS == 5000
\* default of transmit's parameter maxGetResponse
DEFAULT_MAX_GET_RESPONSE == 3

(***************************************************************************)
(* Strings of the program, as code units.                                  *)
(***************************************************************************)
\* ERROR_MESSAGES.NO_CARD
MSG_NO_CARD ==
  <<3652, 3617, 3656, 3614, 3610, 3610, 3633, 3605, 3619>>
\* ERROR_MESSAGES.CARD_NOT_POWERED
MSG_CARD_NOT_POWERED ==
  <<3610, 3633, 3605, 3619, 3652, 3617, 3656, 3652, 3604, 3657, 3619, 3633,
    3610, 3652, 3615, 32, 3585, 3619, 3640, 3603, 3634, 3648, 3626, 3637,
    3618, 3610, 3610, 3633, 3605, 3619, 3651, 3627, 3617, 3656, 3627, 3619,
    3639, 3629, 3605, 3619, 3623, 3592, 3626, 3629, 3610, 3648, 3588, 3619,
    3639, 3656, 3629, 3591, 3629, 3656, 3634, 3609, 3610, 3633, 3605, 3619>>
\* ERROR_MESSAGES.CARD_NOT_RESPONDING
MSG_CARD_NOT_RESPONDING ==
  <<3610, 3633, 3605, 3619, 3652, 3617, 3656, 3605, 3629, 3610, 3626, 3609,
    3629, 3591, 32, 3585, 3619, 3640, 3603, 3634, 3648, 3626, 3637, 3618,
    3610, 3610, 3633, 3605, 3619, 3651, 3627, 3617, 3656>>
\* ERROR_MESSAGES.TIMEOUT ("Timeout: ...")
MSG_TIMEOUT ==
  <<84, 105, 109, 101, 111, 117, 116, 58, 32, 3610, 3633, 3605, 3619, 3652,
    3617, 3656, 3605, 3629, 3610, 3626, 3609, 3629, 3591, 32, 3585, 3619,
    3640, 3603, 3634, 3648, 3626, 3637, 3618, 3610, 3610, 3633, 3605, 3619,
    3651, 3627, 3617, 3656>>
\* ERROR_MESSAGES.NO_READERS
MSG_NO_READERS ==
  <<3652, 3617, 3656, 3614, 3610, 3648, 3588, 3619, 3639, 3656, 3629, 3591,
    3629, 3656, 3634, 3609, 3610, 3633, 3605, 3619, 32, 3585, 3619, 3640,
    3603, 3634, 3605, 3619, 3623, 3592, 3626, 3629, 3610, 3623, 3656, 3634,
    3648, 3588, 3619, 3639, 3656, 3629, 3591, 3629, 3656, 3634, 3609, 3610,
    3633, 3605, 3619, 3606, 3641, 3585, 3648, 3626, 3637, 3618, 3610, 3649,
    3621, 3657, 3623>>
\* ERROR_MESSAGES.GENERIC_ERROR
MSG_GENERIC_ERROR ==
  <<3648, 3585, 3636, 3604, 3586, 3657, 3629, 3612, 3636, 3604, 3614, 3621,
    3634, 3604, 3651, 3609, 3585, 3634, 3619, 3629, 3656, 3634, 3609, 3610,
    3633, 3605, 3619>>
\* 'timeout'
STR_timeout == <<116, 105, 109, 101, 111, 117, 116>>
\* 'unpowered'
STR_unpowered == <<117, 110, 112, 111, 119, 101, 114, 101, 100>>
\* 'power'
STR_power == <<112, 111, 119, 101, 114>>
\* 'unresponsive'
STR_unresponsive == <<117, 110, 114, 101, 115, 112, 111, 110, 115, 105, 118, 101>>
\* 'respond'
STR_respond == <<114, 101, 115, 112, 111, 110, 100>>
\* 'No card'
STR_No_card == <<78, 111, 32, 99, 97, 114, 100>>
\* 'APDU Error: SW='
STR_APDU_Error == <<65, 80, 68, 85, 32, 69, 114, 114, 111, 114, 58, 32, 83, 87, 61>>
\* the gender strings of parseGender and the lifetime sentinel of readCardData
GENDER_MALE == <<3594, 3634, 3618>>
GENDER_FEMALE == <<3627, 3597, 3636, 3591>>
EXPIRE_LIFETIME == <<3605, 3621, 3629, 3604, 3594, 3637, 3614>>
\* digits of Number.prototype.toString(16)
HexDigits == <<48, 49, 50, 51, 52, 53, 54, 55, 56, 57, 97, 98, 99, 100, 101, 102>>
\* the base64 alphabet of Buffer.toString('base64')
Base64Alphabet ==
  <<65, 66, 67, 68, 69, 70, 71, 72, 73, 74, 75, 76, 77, 78, 79, 80, 81, 82,
    83, 84, 85, 86, 87, 88, 89, 90, 97, 98, 99, 100, 101, 102, 103, 104, 105,
    106, 107, 108, 109, 110, 111, 112, 113, 114, 115, 116, 117, 118, 119,
    120, 121, 122, 48, 49, 50, 51, 52, 53, 54, 55, 56, 57, 43, 47>>

(***************************************************************************)
(* String and buffer helpers (JavaScript built-ins).                       *)
(***************************************************************************)
\* String.prototype.includes
Includes(s, p) ==
  \E i \in 0..(Len(s) - Len(p)) : SubSeq(s, i + 1, i + Len(p)) = p

\* Buffer.prototype.slice(a, b), 0-based, end exclusive, clamped
Slice(b, from, to) ==
  SubSeq(b, from + 1, IF to > Len(b) THEN Len(b) ELSE to)

\* Buffer.toString('ascii'): the high bit of every byte is cleared
ToAscii(b) == [i \in 1..Len(b) |-> b[i] % 128]

\* String.prototype.replace(/[set]/g, ''): drop the characters in dropped
RECURSIVE RemoveChars(_, _)
RemoveChars(s, dropped) ==
  IF s = <<>> THEN <<>>
  ELSE IF Head(s) \in dropped THEN RemoveChars(Tail(s), dropped)
       ELSE <<Head(s)>> \o RemoveChars(Tail(s), dropped)

\* the characters \s matches and trim() removes
WhiteSpace ==
  {9, 10, 11, 12, 13, 32, 160, 5760, 8232, 8233, 8239, 8287, 12288, 65279}
      \cup (8192..8202)

IsWhiteSpace(c) == c \in WhiteSpace

\* String.prototype.trim
RECURSIVE TrimLeft(_)
TrimLeft(s) ==
  IF s # <<>> /\ IsWhiteSpace(Head(s)) THEN TrimLeft(Tail(s)) ELSE s

RECURSIVE TrimRight(_)
TrimRight(s) ==
  IF s # <<>> /\ IsWhiteSpace(s[Len(s)])
  THEN TrimRight(SubSeq(s, 1, Len(s) - 1)) ELSE s

Trim(s) == TrimRight(TrimLeft(s))

\* n.toString(16).padStart(2, '0') for a byte n
Hex2(n) == <<HexDigits[(n \div 16) + 1], HexDigits[(n % 16) + 1]>>

\* Buffer.concat
RECURSIVE ConcatAll(_)
ConcatAll(parts) ==
  IF parts = <<>> THEN <<>> ELSE Head(parts) \o ConcatAll(Tail(parts))

\* Buffer.toString('base64'): 3 bytes give 4 characters, '=' pads the tail
RECURSIVE Base64(_)
Base64(b) ==
  IF Len(b) = 0 THEN <<>>
  ELSE IF Len(b) = 1 THEN
    << Base64Alphabet[(b[1] \div 4) + 1],
       Base64Alphabet[((b[1] % 4) * 16) + 1], 61, 61 >>
  ELSE IF Len(b) = 2 THEN
    << Base64Alphabet[(b[1] \div 4) + 1],
       Base64Alphabet[((b[1] % 4) * 16 + (b[2] \div 16)) + 1],
       Base64Alphabet[((b[2] % 16) * 4) + 1], 61 >>
  ELSE
    << Base64Alphabet[(b[1] \div 4) + 1],
       Base64Alphabet[((b[1] % 4) * 16 + (b[2] \div 16)) + 1],
       Base64Alphabet[((b[2] % 16) * 4 + (b[3] \div 64)) + 1],
       Base64Alphabet[(b[3] % 64) + 1] >>
    \o Base64(SubSeq(b, 4, Len(b)))

(***************************************************************************)
(* The field parsers.                                                      *)
(***************************************************************************)
\* a variant of EndIndex: only 0x00 is taken off the tail
RECURSIVE EndIndexNulOnly(_, _)
EndIndexNulOnly(data, endIndex) ==
  IF endIndex > 0 /\ data[endIndex] = 0
  THEN EndIndexNulOnly(data, endIndex - 1) ELSE endIndex

\* parseThaiText: index after the last byte that is neither 0x00 nor 0x23
RECURSIVE EndIndex(_, _)
EndIndex(data, endIndex) ==
  IF endIndex > 0 /\ (data[endIndex] = 0 \/ data[endIndex] = 35)
  THEN EndIndex(data, endIndex - 1) ELSE endIndex

\* a variant of Tis620Char: bytes above 0x7F decode as Latin-1
Tis620CharLatin(byte) == byte

\* iconv.decode(_, 'tis620'): one byte to one code unit; bytes the table
\* does not define decode to U+FFFD
Tis620Char(byte) ==
  IF byte < 128 THEN byte
  ELSE IF (byte >= 161 /\ byte <= 218) \/ (byte >= 223 /\ byte <= 251)
       THEN 3584 + (byte - 160)
       ELSE 65533

IconvDecodeTis620(b) == [i \in 1..Len(b) |-> Tis620Char(b[i])]

\* the characters /[\x00-\x08\x0B\x0C\x0E-\x1F\x7F]/g removes
ControlChars == (0..8) \cup {11, 12} \cup (14..31) \cup {127}

\* the catch branch of parseThaiText: the manual conversion, byte by byte
RECURSIVE FallbackDecode(_)
FallbackDecode(b) ==
  IF b = <<>> THEN <<>>
  ELSE LET byte == Head(b)
           out  == IF byte < 128
                   THEN IF byte >= 32 \/ byte = 10 \/ byte = 13
                        THEN <<byte>> ELSE <<>>
                   ELSE IF byte >= 161 /\ byte <= 251
                        THEN <<3584 + (byte - 161)>>
                        ELSE <<>>
       IN out \o FallbackDecode(Tail(b))

\* parseThaiText(data); iconvThrows is whether iconv.decode raised
parseThaiText(data, iconvThrows) ==
  IF Len(data) = 0 THEN <<>>
  ELSE LET endIndex == EndIndex(data, Len(data)) IN
       IF endIndex = 0 THEN <<>>
       ELSE LET cleanData == Slice(data, 0, endIndex) IN
            IF ~iconvThrows
            THEN Trim(RemoveChars(IconvDecodeTis620(cleanData), ControlChars))
            ELSE Trim(FallbackDecode(cleanData))

\* a variant of formatDate: the day runs to the end of the buffer
formatDateDayToEnd(data) ==
  IF Len(data) < 8 THEN <<>>
  ELSE ToAscii(Slice(data, 0, 4)) \o <<45>> \o ToAscii(Slice(data, 4, 6))
       \o <<45>> \o ToAscii(Slice(data, 6, Len(data)))

\* a variant of formatDate: no test of the length
formatDateNoLengthTest(data) ==
  ToAscii(Slice(data, 0, 4)) \o <<45>> \o ToAscii(Slice(data, 4, 6))
    \o <<45>> \o ToAscii(Slice(data, 6, 8))

\* formatDate(data)
formatDate(data) ==
  IF Len(data) < 8 THEN <<>>
  ELSE ToAscii(Slice(data, 0, 4)) \o <<45>> \o ToAscii(Slice(data, 4, 6))
       \o <<45>> \o ToAscii(Slice(data, 6, 8))

\* parseGender(data)
parseGender(data) ==
  IF Len(data) = 0 THEN <<>>
  ELSE IF data[1] = 1 \/ data[1] = 49 THEN GENDER_MALE
  ELSE IF data[1] = 2 \/ data[1] = 50 THEN GENDER_FEMALE
  ELSE <<>>

\* the citizenId expression of readCardData
parseCitizenId(cidData) ==
  IF Len(cidData) >= 13
  THEN RemoveChars(RemoveChars(ToAscii(Slice(cidData, 0, 13)), {0}), WhiteSpace)
  ELSE <<>>

\* a variant of parseExpire: the sentinel needs a full 8-byte buffer
parseExpireNeedsEight(expireData) ==
  IF Len(expireData) >= 8 /\ expireData[1] = 0 THEN EXPIRE_LIFETIME
  ELSE formatDate(expireData)

\* the expireDate statement of readCardData
parseExpire(expireData) ==
  IF Len(expireData) > 0 /\ expireData[1] = 0 THEN EXPIRE_LIFETIME
  ELSE formatDate(expireData)

(***************************************************************************)
(* The APDU commands.                                                      *)
(***************************************************************************)
\* APDU_COMMANDS
CMD_SELECT == <<0, 164, 4, 0, 8, 160, 0, 0, 0, 84, 72, 0, 1>>
CMD_CID == <<128, 176, 0, 4, 2, 0, 13>>
CMD_THAI_NAME == <<128, 176, 0, 17, 2, 0, 100>>
CMD_ENG_NAME == <<128, 176, 0, 117, 2, 0, 100>>
CMD_BIRTH == <<128, 176, 0, 217, 2, 0, 8>>
CMD_GENDER == <<128, 176, 0, 225, 2, 0, 1>>
CMD_ADDRESS == <<128, 176, 21, 121, 2, 0, 100>>
CMD_ISSUE == <<128, 176, 1, 103, 2, 0, 8>>
CMD_EXPIRE == <<128, 176, 1, 111, 2, 0, 8>>

\* a variant of ReadSequence: the birth date and the gender reads swapped
ReadSequenceSwapped ==
  << CMD_SELECT, CMD_CID, CMD_THAI_NAME, CMD_ENG_NAME, CMD_GENDER, CMD_BIRTH,
     CMD_ADDRESS, CMD_ISSUE, CMD_EXPIRE >>

\* readCardData: the commands of its sendAPDU calls before the photo loop,
\* in program order
ReadSequence ==
  << CMD_SELECT, CMD_CID, CMD_THAI_NAME, CMD_ENG_NAME, CMD_BIRTH, CMD_GENDER,
     CMD_ADDRESS, CMD_ISSUE, CMD_EXPIRE >>

\* photoPartCmd(n)
photoPartCmd(n) == <<128, 176, 122, (90 + n) % 256, 2, 0, 255>>

\* a variant of LastCmd: the photo loop runs once more
LastCmdOneMoreChunk == NUM_FIELDS + PHOTO_PARTS + 1

\* position of the last command of readCardData: SELECT is 0, the fields
\* are 1..NUM_FIELDS, photo chunk i is NUM_FIELDS + 1 + i
LastCmd == NUM_FIELDS + PHOTO_PARTS

IsPhotoCmd(c) == c > NUM_FIELDS

\* the command buffer readCardData passes to sendAPDU at position c
CmdBytes(c) ==
  IF IsPhotoCmd(c) THEN photoPartCmd(c - NUM_FIELDS - 1) ELSE ReadSequence[c + 1]

\* a variant of DelayAfter: the photo loop does not pause
DelayAfterNoPhotoPause(c) ==
  IF c = 0 THEN SELECT_DELAY_MS ELSE IF IsPhotoCmd(c) THEN 0 ELSE APDU_DELAY_MS

\* the pause readCardData awaits after the command at position c succeeded
DelayAfter(c) == IF c = 0 THEN SELECT_DELAY_MS ELSE APDU_DELAY_MS

(***************************************************************************)
(* The environment: what the reader, the card and the channel may answer.  *)
(***************************************************************************)
\* reader names and hints: "AB", "B", "Z", "Q", "ABZ"
ReaderAB == <<65, 66>>
ReaderB == <<66>>
ReaderZ == <<90>>
ReaderQ == <<81>>
ReaderABZ == <<65, 66, 90>>
\* what listReaders may return: no reader, or the readers "Z" and "AB"
ReaderLists == { <<>>, <<ReaderZ, ReaderAB>> }
\* the readerName argument of readCard; <<>> is no argument.  "B" is
\* contained in the name "AB", "Q" matches no reader, "ABZ" contains both
\* names
Hints == { <<>>, ReaderB, ReaderQ, ReaderABZ }

\* the option timeout given to the constructor; 0 is no option
TimeoutOptions == { 0, 1000 }

\* the constructor: this.timeout = options?.timeout || 30000
TimeoutOf(option) == IF option # 0 THEN option ELSE DEFAULT_TIMEOUT

\* a variant of Min: the second argument, whatever the first
MinIgnoresCap(a, b) == b

\* Math.min
Min(a, b) == IF a < b THEN a ELSE b

\* status words a card answers: 9000, 6110, 9001, 6C08, 6A82
StatusWords == { <<144, 0>>, <<97, 16>>, <<144, 1>>, <<108, 8>>, <<106, 130>> }

\* messages of channel faults: 'Card timeout', 'Card is unpowered',
\* 'Transaction failed'
FaultMessages ==
  { <<67, 97, 114, 100, 32, 116, 105, 109, 101, 111, 117, 116>>,
    <<67, 97, 114, 100, 32, 105, 115, 32, 117, 110, 112, 111, 119, 101, 114, 101, 100>>,
    <<84, 114, 97, 110, 115, 97, 99, 116, 105, 111, 110, 32, 102, 97, 105, 108, 101, 100>> }

\* response data a card may return for the command at position c
DataChoices(c) ==
  CASE c = 0 -> { <<>> }
    [] c = 1 -> { <<49, 49, 48, 49, 55, 48, 48, 50, 48, 51, 52, 53, 49>> }
    [] c = 2 -> { <<185, 210, 194, 35, 202, 193, 0, 0>> }
    [] c = 3 -> { <<77, 114, 46, 35, 65, 35, 66, 35, 35, 35, 35>> }
    [] c = 4 -> { <<50, 53, 51, 48, 48, 49, 49, 53>> }
    [] c = 5 -> { <<49>> }
    [] c = 6 -> { <<57, 57, 32, 161, 183, 193, 46, 35, 35>> }
    [] c = 7 -> { <<50, 48, 50, 48, 48, 53, 50, 48>> }
    [] c = 8 -> { <<50, 48, 50, 57, 48, 49, 49, 52>> }
    [] OTHER -> IF c - NUM_FIELDS - 1 < VarChunks
                THEN { <<255, 216, c>>, <<>> }
                ELSE { <<c, 255 - c>> }

Result(sw, d) ==
  [kind |-> "result", sw1 |-> sw[1], sw2 |-> sw[2], data |-> d, message |-> <<>>]
Fault(m) ==
  [kind |-> "fault", sw1 |-> 0, sw2 |-> 0, data |-> <<>>, message |-> m]
NoOutcome ==
  [kind |-> "none", sw1 |-> 0, sw2 |-> 0, data |-> <<>>, message |-> <<>>]

\* what one card.transmitWithRetry(command, responseLength, 1, 100) call
\* may end with: a TransmitResult or a thrown fault
Outcomes(c) ==
  { Result(sw, d) : sw \in StatusWords, d \in DataChoices(c) }
    \cup { Fault(m) : m \in FaultMessages }

(***************************************************************************)
(* sendAPDU, readCardData and readCard: the decisions of the code.         *)
(***************************************************************************)
\* a variant of Acceptable: the test reads sw1 only
AcceptableSw1Only(o) ==
  /\ o.kind = "result"
  /\ (o.sw1 = 144 \/ o.sw1 = 97)

\* a variant of Acceptable: every status word is taken as success
AcceptableAnyStatus(o) == o.kind = "result"

\* sendAPDU: the test under "Success or more data available"
Acceptable(o) ==
  /\ o.kind = "result"
  /\ ((o.sw1 = 144 /\ o.sw2 = 0) \/ o.sw1 = 97)

\* variants of ShouldRetry: no retry at all; one retry too many
ShouldRetryNever(att) == FALSE
ShouldRetryOnceMore(att) == att < MAX_RETRIES

\* sendAPDU: "attempt < maxRetries - 1", the test before both waits
ShouldRetry(att) == att < MAX_RETRIES - 1

\* a variant of WaitsBeforeRetry: the catch branch retries at once
WaitsOnlyAfterStatus(o) == o.kind = "result"

\* sendAPDU: whether the delay is awaited before the retry; both the status
\* branch and the catch branch await it
WaitsBeforeRetry(o) == TRUE

\* sendAPDU: the message of the Error it throws after the last attempt
ErrorOf(o) ==
  IF o.kind = "result" THEN STR_APDU_Error \o Hex2(o.sw1) \o Hex2(o.sw2)
  ELSE o.message

\* a variant of OnSendError: the photo loop has no try/catch
OnSendErrorThrow(c) == "throw"

\* readCardData: what a throwing sendAPDU does to the command at position c;
\* the photo loop catches and breaks, every other await lets it propagate
OnSendError(c) == IF IsPhotoCmd(c) THEN "break" ELSE "throw"

\* a variant of PushPart: the part is put in front
PushPartFront(parts, part) == <<part>> \o parts

\* readCardData: photoParts.push(part)
PushPart(parts, part) == Append(parts, part)

\* readCardData: the position of the command sent after position c
NextCmd(c) == c + 1

\* readCardData: the record built from the raw buffers
BuildRecord(fields, parts, iconvThrows) ==
  LET gender == parseGender(fields[5])
      photo  == IF Len(parts) > 0 THEN Base64(ConcatAll(parts)) ELSE <<>>
  IN [ citizenId  |-> parseCitizenId(fields[1]),
       nameTh     |-> parseThaiText(fields[2], iconvThrows),
       nameEn     |-> parseThaiText(fields[3], iconvThrows),
       birthDate  |-> formatDate(fields[4]),
       gender     |-> IF gender # <<>> THEN gender ELSE GENDER_MALE,
       address    |-> parseThaiText(fields[6], iconvThrows),
       issueDate  |-> formatDate(fields[7]),
       expireDate |-> parseExpire(fields[8]),
       hasPhoto   |-> photo # <<>>,
       photo      |-> photo ]

NoRecord ==
  [ citizenId |-> <<>>, nameTh |-> <<>>, nameEn |-> <<>>, birthDate |-> <<>>,
    gender |-> <<>>, address |-> <<>>, issueDate |-> <<>>, expireDate |-> <<>>,
    hasPhoto |-> FALSE, photo |-> <<>> ]

\* readCard: error.message || String(error), for a thrown Error
ErrorText(message) ==
  IF message # <<>> THEN message ELSE <<69, 114, 114, 111, 114>>

\* a variant of ClassifyError: an unrecognised message becomes the generic one
ClassifyErrorGeneric(message) ==
  LET errorMessage == ErrorText(message) IN
  IF Includes(errorMessage, STR_timeout) THEN MSG_TIMEOUT
  ELSE IF Includes(errorMessage, STR_unpowered) \/ Includes(errorMessage, STR_power)
       THEN MSG_CARD_NOT_POWERED
  ELSE IF Includes(errorMessage, STR_unresponsive) \/ Includes(errorMessage, STR_respond)
       THEN MSG_CARD_NOT_RESPONDING
  ELSE IF Includes(errorMessage, STR_No_card) \/ Includes(errorMessage, MSG_NO_CARD)
       THEN MSG_NO_CARD
  ELSE MSG_GENERIC_ERROR

\* a variant of ClassifyText: the timeout test comes last
ClassifyTextTimeoutLast(errorMessage) ==
  IF Includes(errorMessage, STR_unpowered) \/ Includes(errorMessage, STR_power)
  THEN MSG_CARD_NOT_POWERED
  ELSE IF Includes(errorMessage, STR_unresponsive) \/ Includes(errorMessage, STR_respond)
       THEN MSG_CARD_NOT_RESPONDING
  ELSE IF Includes(errorMessage, STR_No_card) \/ Includes(errorMessage, MSG_NO_CARD)
       THEN MSG_NO_CARD
  ELSE IF Includes(errorMessage, STR_timeout) THEN MSG_TIMEOUT
  ELSE IF errorMessage # <<>> THEN errorMessage ELSE MSG_GENERIC_ERROR

\* readCard: the if/else chain of the catch block on the text errorMessage
ClassifyText(errorMessage) ==
  IF Includes(errorMessage, STR_timeout) THEN MSG_TIMEOUT
  ELSE IF Includes(errorMessage, STR_unpowered) \/ Includes(errorMessage, STR_power)
       THEN MSG_CARD_NOT_POWERED
  ELSE IF Includes(errorMessage, STR_unresponsive) \/ Includes(errorMessage, STR_respond)
       THEN MSG_CARD_NOT_RESPONDING
  ELSE IF Includes(errorMessage, STR_No_card) \/ Includes(errorMessage, MSG_NO_CARD)
       THEN MSG_NO_CARD
  ELSE IF errorMessage # <<>> THEN errorMessage ELSE MSG_GENERIC_ERROR

\* readCard: the message of the Error the catch block throws, for a caught
\* Error with the given message
ClassifyError(message) == ClassifyText(ErrorText(message))

\* a variant of AfterDisconnect: a fault of disconnect leaves the finally
\* block and replaces the outcome ('Disconnect failed')
AfterDisconnectRethrows(outcome, disconnectFault) ==
  IF disconnectFault
  THEN [ settled |-> "error",
         errorMessage |-> <<68, 105, 115, 99, 111, 110, 110, 101, 99, 116, 32,
                            102, 97, 105, 108, 101, 100>>,
         record |-> NoRecord ]
  ELSE outcome

\* readCard: what the call settles with once the finally block has run;
\* card.disconnect is inside try { } catch { }, so its fault is dropped and
\* the outcome of the try and catch blocks stands
AfterDisconnect(outcome, disconnectFault) == outcome

\* a variant of FinallyDisconnects: no finally block
NoFinallyDisconnect(cardNonNull) == 0

\* a variant of FinallyDisconnects: disconnect whatever card holds
FinallyDisconnectsAlways(cardNonNull) == 1

\* readCard: the number of disconnect calls of the finally block
FinallyDisconnects(cardNonNull) == IF cardNonNull THEN 1 ELSE 0

\* readCard: readers.find(...) with a hint, readers[0] without; <<>> is
\* "not found"
RECURSIVE FindReader(_, _)
FindReader(rs, readerName) ==
  IF rs = <<>> THEN <<>>
  ELSE IF Head(rs) = readerName \/ Includes(Head(rs), readerName)
          \/ Includes(readerName, Head(rs))
       THEN Head(rs)
       ELSE FindReader(Tail(rs), readerName)

\* a variant of SelectReader: the first reader when the hint matches none
SelectReaderFirstOnMiss(rs, readerName) ==
  IF readerName # <<>> /\ FindReader(rs, readerName) # <<>>
  THEN FindReader(rs, readerName) ELSE rs[1]

\* a variant of SelectReader: the first reader, whatever the hint
SelectReaderIgnoresHint(rs, readerName) == rs[1]

SelectReader(rs, readerName) ==
  IF readerName # <<>> THEN FindReader(rs, readerName) ELSE rs[1]

(***************************************************************************)
(* The state of one readCard call.                                         *)
(***************************************************************************)
VARIABLES
  readers,          \* what listReaders returns
  hint,             \* the readerName argument
  timeout,          \* this.timeout
  optReader,        \* the option readerName given to the constructor; <<>>
                    \* is no option
  statusArgs,       \* the reader names passed to getStatus, in call order
  waitArgs,         \* the <<reader name, timeoutMs>> passed to waitForCard
  connectArgs,      \* the reader names passed to connect
  selectedReader,   \* selectedReader, <<>> before the selection
  pc,               \* where the call is suspended
  channel,          \* "none" | "open" | "closed": the Card of connect
  connectCalls,     \* calls of reader.connect that returned a Card
  disconnectCalls,  \* calls of card.disconnect
  disconnectThrew,  \* whether the disconnect call raised
  cmd,              \* position of the command being sent
  attempt,          \* sendAPDU's loop variable
  sends,            \* transmitWithRetry calls made for the current command
  waits,            \* retry waits made for the current command
  sendResult,       \* "none" | "returned" | "threw": how sendAPDU ended
  returned,         \* the buffer sendAPDU returned
  thrown,           \* the message of the Error sendAPDU threw
  failKinds,        \* the kinds of the failed attempts of the current command
  lastOutcome,      \* how the last transmitWithRetry call ended
  issued,           \* the command buffers, in the order first sent
  gaps,             \* for each of them, the ms waited since the call before
  sinceLast,        \* ms waited since the last transmitWithRetry call
  completed,        \* the commands that ended acceptably, with their data
  fieldData,        \* cidData .. expireData, as far as read
  photoParts,       \* photoParts
  settled,          \* "pending" | "record" | "error": how readCard ended
  errorMessage,     \* the message of the Error readCard rejected with
  caught,           \* the message of the error the catch block caught
  escaped,          \* "none" | "listReaders" | "getStatus": the call whose
                    \* fault left readCard outside the try block
  record,           \* the ThaiIDCardData readCard resolved with
  txPc,             \* Card.transmit: "idle" | "getResponse" | "reissue" | "done"
  txCommand,        \* its argument command
  txMaxGet,         \* its argument maxGetResponse, defaulted
  txAcc,            \* the data accumulated so far
  txSw,             \* the status word of the last exchange
  txIter,           \* GET RESPONSE commands issued so far
  txReissued,       \* whether the command was reissued for a wrong length
  txSent,           \* the commands sent on the channel, in order
  txResps,          \* the answers of the channel, in order
  txResult,         \* "none" | "returned" | "fault": how transmit ended
  sesHint,          \* concurrent readCard calls: the readerName of each call
  sesReader,        \* the selectedReader of each call
  sesPc,            \* where each call is suspended
  sesCard,          \* "none" | "open" | "closed": the Card of each call
  sesCmd,           \* position of the command each call is sending
  sesAttempt,       \* sendAPDU's loop variable in each call
  busOrder,         \* per reader: the calls whose APDUs reached it, in order,
                    \* consecutive APDUs of one call recorded once, the
                    \* first MaxBusOrder entries
  sesLog,           \* per call: the events on the Card it connected, in order
  fnPc,             \* a parser called on its own: "idle" | "called" | "done"
  fnIn,             \* its argument buffer
  fnOut,            \* the string it returned
  budPc,            \* one readCard call, its channel calls counted: where it is
  budCmd,           \* position of the command it is sending
  budAttempt,       \* sendAPDU's loop variable
  budCalls,         \* card.transmitWithRetry calls made so far
  budPerCmd,        \* the calls made for the command at budCmd
  budChunks,        \* the arguments given to photoPartCmd so far
  ldVersion,        \* loadBinding: which version of the loader runs
  ldPlatform,       \* process.platform
  ldArch,           \* process.arch
  ldExists,         \* the paths for which existsSync answers true
  ldIsMusl,         \* isMusl
  ldIndex,          \* position in bindings of the candidate examined next
  ldPc,             \* "idle" | "detect" | "search" | "returned" | "cached" | "threw"
  ldLog,            \* the require calls in order: path, error, what followed
  nativeBinding,    \* the module variable; <<>> is null
  ldReturned,       \* what loadBinding returned; <<>> is nothing
  ldThrown,         \* "none" | "cannot find" | "failed" | "rethrown"
  ldTried           \* the list in the message of 'Cannot find native binding'

envVars == <<readers, hint, timeout, optReader>>
callVars == <<statusArgs, waitArgs, connectArgs>>
sendVars == <<cmd, attempt, sends, waits, sendResult, returned, thrown, failKinds>>
logVars == <<lastOutcome, issued, gaps, sinceLast, completed>>
dataVars == <<fieldData, photoParts>>
endVars == <<settled, errorMessage, caught, escaped, record>>
cardVars == <<channel, connectCalls, disconnectCalls, disconnectThrew>>
txVars ==
  << txPc, txCommand, txMaxGet, txAcc, txSw, txIter, txReissued, txSent,
     txResps, txResult >>
readVars ==
  << readers, hint, timeout, optReader, statusArgs, waitArgs, connectArgs,
     selectedReader, pc, channel, connectCalls,
     disconnectCalls, disconnectThrew, cmd, attempt, sends, waits,
     sendResult, returned, thrown, failKinds, lastOutcome, issued, gaps, sinceLast,
     completed, fieldData, photoParts, settled, errorMessage, caught, escaped, record >>

sesVars == <<sesHint, sesReader, sesPc, sesCard, sesCmd, sesAttempt, busOrder, sesLog>>

fnVars == <<fnPc, fnIn, fnOut>>

budVars == <<budPc, budCmd, budAttempt, budCalls, budPerCmd, budChunks>>

ldVars ==
  << ldVersion, ldPlatform, ldArch, ldExists, ldIsMusl, ldIndex, ldPc, ldLog,
     nativeBinding, ldReturned, ldThrown, ldTried >>

vars == <<readVars, txVars, sesVars, fnVars, budVars, ldVars>>

\* loadBinding is not being followed
LdIdle ==
  /\ ldVersion = "part_000"
  /\ ldPlatform = "linux"
  /\ ldArch = "x64"
  /\ ldExists = {}
  /\ ldIsMusl = FALSE
  /\ ldIndex = 0
  /\ ldPc = "idle"
  /\ ldLog = <<>>
  /\ nativeBinding = <<>>
  /\ ldReturned = <<>>
  /\ ldThrown = "none"
  /\ ldTried = <<>>

\* no counted readCard call has run yet
BudIdle ==
  /\ budPc = "idle"
  /\ budCmd = 0
  /\ budAttempt = 0
  /\ budCalls = 0
  /\ budPerCmd = 0
  /\ budChunks = {}

\* no parser has been called on its own
FnIdle ==
  /\ fnPc = "idle"
  /\ fnIn = <<>>
  /\ fnOut = <<>>

\* the readCard calls in progress at once on one ThaiIDCardReader
Sessions == {1, 2}

\* the readers of the list of the concurrent calls
SesReaders == {ReaderZ, ReaderAB}

\* no concurrent call has run yet
SesIdle ==
  /\ sesReader = [s \in Sessions |-> <<>>]
  /\ sesPc = [s \in Sessions |-> "start"]
  /\ sesCard = [s \in Sessions |-> "none"]
  /\ sesCmd = [s \in Sessions |-> 0]
  /\ sesAttempt = [s \in Sessions |-> 0]
  /\ busOrder = [r \in SesReaders |-> <<>>]
  /\ sesLog = [s \in Sessions |-> <<>>]

\* no transmit call of the Card wrapper is in progress
TxIdle ==
  /\ txPc = "idle"
  /\ txCommand = <<>>
  /\ txMaxGet = 0
  /\ txAcc = <<>>
  /\ txSw = <<0, 0>>
  /\ txIter = 0
  /\ txReissued = FALSE
  /\ txSent = <<>>
  /\ txResps = <<>>
  /\ txResult = "none"

\* readCard has been called and has not run yet
ReadIdle ==
  /\ selectedReader = <<>>
  /\ statusArgs = <<>>
  /\ waitArgs = <<>>
  /\ connectArgs = <<>>
  /\ pc = "start"
  /\ channel = "none"
  /\ connectCalls = 0
  /\ disconnectCalls = 0
  /\ disconnectThrew = FALSE
  /\ cmd = 0
  /\ attempt = 0
  /\ sends = 0
  /\ waits = 0
  /\ sendResult = "none"
  /\ returned = <<>>
  /\ thrown = <<>>
  /\ failKinds = {}
  /\ lastOutcome = NoOutcome
  /\ issued = <<>>
  /\ gaps = <<>>
  /\ sinceLast = 0
  /\ completed = <<>>
  /\ fieldData = <<>>
  /\ photoParts = <<>>
  /\ settled = "pending"
  /\ errorMessage = <<>>
  /\ caught = <<>>
  /\ escaped = "none"
  /\ record = NoRecord

Init ==
  /\ readers \in ReaderLists
  /\ hint \in Hints
  /\ timeout \in { TimeoutOf(option) : option \in TimeoutOptions }
  /\ optReader = <<>>
  /\ ReadIdle
  /\ TxIdle
  /\ sesHint = [s \in Sessions |-> <<>>]
  /\ SesIdle
  /\ FnIdle
  /\ LdIdle
  /\ BudIdle

(***************************************************************************)
(* How readCard settles.                                                   *)
(***************************************************************************)
\* the finally block: disconnect when card is non-null, its fault swallowed
Finally(dthrow) ==
  LET n == FinallyDisconnects(channel = "open") IN
  /\ disconnectCalls' = disconnectCalls + n
  /\ disconnectThrew' = (n > 0 /\ dthrow)
  /\ channel' = IF n > 0 THEN "closed" ELSE channel
  /\ UNCHANGED connectCalls

\* a throw before the try block: readCard rejects with that very Error
RejectWith(message) ==
  /\ pc' = "done"
  /\ settled' = "error"
  /\ errorMessage' = message
  /\ UNCHANGED <<caught, escaped, record, cardVars>>

\* a fault of listReaders or getStatus: no try block is around the call
Escape(call, message) ==
  /\ pc' = "done"
  /\ settled' = "error"
  /\ errorMessage' = message
  /\ escaped' = call
  /\ UNCHANGED <<caught, record, cardVars>>

\* a throw inside the try block: catch, classify, finally
CatchAndReject(message, dthrow) ==
  LET out == AfterDisconnect([ settled |-> "error",
                               errorMessage |-> ClassifyError(message),
                               record |-> record ],
                             FinallyDisconnects(channel = "open") > 0 /\ dthrow)
  IN /\ pc' = "done"
     /\ settled' = out.settled
     /\ caught' = ErrorText(message)
     /\ errorMessage' = out.errorMessage
     /\ record' = out.record
     /\ UNCHANGED escaped
     /\ Finally(dthrow)

\* readCardData returns: parse, build the record, finally
ReturnRecord(fields, parts, iconvThrows, dthrow) ==
  LET out == AfterDisconnect([ settled |-> "record",
                               errorMessage |-> errorMessage,
                               record |-> BuildRecord(fields, parts, iconvThrows) ],
                             FinallyDisconnects(channel = "open") > 0 /\ dthrow)
  IN /\ pc' = "done"
     /\ settled' = out.settled
     /\ record' = out.record
     /\ errorMessage' = out.errorMessage
     /\ UNCHANGED <<caught, escaped>>
     /\ Finally(dthrow)

(***************************************************************************)
(* The steps of readCard.                                                  *)
(***************************************************************************)
\* listReaders, the reader selection and getStatus
Start ==
  /\ UNCHANGED budVars
  /\ UNCHANGED ldVars
  /\ UNCHANGED <<txVars, sesVars, fnVars>>
  /\ pc = "start"
  /\ UNCHANGED <<envVars, sendVars, logVars, dataVars>>
  /\ \E listed \in {NoOutcome} \cup {Fault(m) : m \in FaultMessages} :
       IF listed.kind = "fault"
       THEN /\ Escape("listReaders", listed.message)
            /\ UNCHANGED <<selectedReader, callVars>>
       ELSE IF Len(readers) = 0 \/ SelectReader(readers, hint) = <<>>
       THEN /\ RejectWith(MSG_NO_READERS)
            /\ UNCHANGED <<selectedReader, callVars>>
       ELSE /\ selectedReader' = SelectReader(readers, hint)
            /\ statusArgs' = Append(statusArgs, SelectReader(readers, hint))
            /\ UNCHANGED <<waitArgs, connectArgs>>
            /\ \E status \in {"present", "absent", "fault"}, m \in FaultMessages :
                 IF status = "fault"
                 THEN Escape("getStatus", m)
                 ELSE /\ pc' = IF status = "present" THEN "readyDelay" ELSE "waitCard"
                      /\ UNCHANGED <<endVars, cardVars>>

\* await waitForCard(selectedReader, min(5000, timeout)), then the check of
\* cardStatus.present
WaitForCard ==
  /\ UNCHANGED budVars
  /\ UNCHANGED ldVars
  /\ UNCHANGED <<txVars, sesVars, fnVars>>
  /\ pc = "waitCard"
  /\ waitArgs' = Append(waitArgs, <<selectedReader, Min(WAIT_CAP_MS, timeout)>>)
  /\ UNCHANGED <<envVars, selectedReader, statusArgs, connectArgs, sendVars,
                 logVars, dataVars>>
  /\ \E answer \in {"present", "absent", "fault"} :
       IF answer = "present"
       THEN pc' = "readyDelay" /\ UNCHANGED <<endVars, cardVars>>
       ELSE RejectWith(MSG_NO_CARD)

\* await CARD_READY_DELAY_MS, then reader.connect inside the try block
Connect ==
  /\ UNCHANGED budVars
  /\ UNCHANGED ldVars
  /\ UNCHANGED <<txVars, sesVars, fnVars>>
  /\ pc = "readyDelay"
  /\ connectArgs' = Append(connectArgs, selectedReader)
  /\ UNCHANGED <<envVars, selectedReader, statusArgs, waitArgs, sendVars, logVars,
                 dataVars>>
  /\ \E o \in {NoOutcome} \cup {Fault(m) : m \in FaultMessages}, dthrow \in BOOLEAN :
       IF o.kind = "fault"
       THEN CatchAndReject(o.message, dthrow)
       ELSE /\ channel' = "open"
            /\ connectCalls' = connectCalls + 1
            /\ pc' = "connectedDelay"
            /\ UNCHANGED <<disconnectCalls, disconnectThrew, endVars>>

\* await CARD_READY_DELAY_MS after connect; readCardData is entered
CardReadyDelay ==
  /\ UNCHANGED budVars
  /\ UNCHANGED ldVars
  /\ UNCHANGED <<txVars, sesVars, fnVars>>
  /\ pc = "connectedDelay"
  /\ pc' = "send"
  /\ sinceLast' = sinceLast + CARD_READY_DELAY_MS
  /\ UNCHANGED <<envVars, selectedReader, callVars, sendVars, dataVars, endVars, cardVars,
                 lastOutcome, issued, gaps, completed>>

\* one pass of sendAPDU's loop body: card.transmitWithRetry(command, n, 1,
\* 100) and what the code does with its outcome, up to the next await
Transmit ==
  /\ UNCHANGED budVars
  /\ UNCHANGED ldVars
  /\ UNCHANGED <<txVars, sesVars, fnVars>>
  /\ pc = "send"
  /\ UNCHANGED <<envVars, selectedReader, callVars, cmd, waits>>
  /\ \E o \in Outcomes(cmd) :
       /\ lastOutcome' = o
       /\ issued' = IF sends = 0 THEN Append(issued, CmdBytes(cmd)) ELSE issued
       /\ gaps' = IF sends = 0 THEN Append(gaps, sinceLast) ELSE gaps
       /\ sinceLast' = 0
       /\ sends' = sends + 1
       /\ completed' = IF o.kind = "result" /\ ((o.sw1 = 144 /\ o.sw2 = 0) \/ o.sw1 = 97)
                       THEN Append(completed, [cmd |-> cmd, data |-> o.data])
                       ELSE completed
       /\ IF Acceptable(o)
          THEN \* return result.data
               /\ sendResult' = "returned"
               /\ returned' = o.data
               /\ fieldData' = IF cmd >= 1 /\ ~IsPhotoCmd(cmd)
                               THEN Append(fieldData, o.data) ELSE fieldData
               /\ photoParts' = IF IsPhotoCmd(cmd)
                                THEN PushPart(photoParts, o.data) ELSE photoParts
               /\ pc' = "pause"
               /\ UNCHANGED <<attempt, thrown, failKinds, endVars, cardVars>>
          ELSE IF ShouldRetry(attempt)
          THEN \* await the retry delay, then continue
               /\ failKinds' = failKinds \cup {o.kind}
               /\ IF WaitsBeforeRetry(o)
                  THEN pc' = "retryWait" /\ UNCHANGED attempt
                  ELSE pc' = "send" /\ attempt' = attempt + 1
               /\ UNCHANGED <<sendResult, returned, thrown, dataVars, endVars, cardVars>>
          ELSE \* the last attempt: sendAPDU throws
               /\ failKinds' = failKinds \cup {o.kind}
               /\ sendResult' = "threw"
               /\ thrown' = ErrorOf(o)
               /\ UNCHANGED <<attempt, returned, dataVars>>
               /\ \E iconvThrows \in BOOLEAN, dthrow \in BOOLEAN :
                    IF OnSendError(cmd) = "break"
                    THEN ReturnRecord(fieldData, photoParts, iconvThrows, dthrow)
                    ELSE CatchAndReject(ErrorOf(o), dthrow)

\* sendAPDU: await setTimeout(100), continue
RetryWait ==
  /\ UNCHANGED budVars
  /\ UNCHANGED ldVars
  /\ UNCHANGED <<txVars, sesVars, fnVars>>
  /\ pc = "retryWait"
  /\ pc' = "send"
  /\ waits' = waits + 1
  /\ attempt' = attempt + 1
  /\ sinceLast' = sinceLast + RETRY_DELAY_MS
  /\ UNCHANGED <<envVars, selectedReader, callVars, cmd, sends, sendResult, returned, thrown,
                 failKinds, dataVars, endVars, cardVars, lastOutcome, issued, gaps,
                 completed>>

\* readCardData: the pause awaited after a command that succeeded, then the
\* next sendAPDU is entered, or the photo loop ends and the record is built
Pause ==
  /\ UNCHANGED budVars
  /\ UNCHANGED ldVars
  /\ UNCHANGED <<txVars, sesVars, fnVars>>
  /\ pc = "pause"
  /\ sinceLast' = sinceLast + DelayAfter(cmd)
  /\ UNCHANGED <<envVars, selectedReader, callVars, dataVars, lastOutcome, issued, gaps,
                 completed>>
  /\ IF NextCmd(cmd) <= LastCmd
     THEN /\ cmd' = NextCmd(cmd)
          /\ attempt' = 0
          /\ sends' = 0
          /\ waits' = 0
          /\ sendResult' = "none"
          /\ failKinds' = {}
          /\ pc' = "send"
          /\ UNCHANGED <<returned, thrown, endVars, cardVars>>
     ELSE /\ UNCHANGED sendVars
          /\ \E iconvThrows \in BOOLEAN, dthrow \in BOOLEAN :
               ReturnRecord(fieldData, photoParts, iconvThrows, dthrow)

Next ==
  \/ Start
  \/ WaitForCard
  \/ Connect
  \/ CardReadyDelay
  \/ Transmit
  \/ RetryWait
  \/ Pause

Spec == Init /\ [][Next]_vars

(***************************************************************************)
(* readCard on a ThaiIDCardReader constructed with the option readerName.  *)
(* The constructor stores the reader and the timeout and nothing else.     *)
(***************************************************************************)
\* the option readerName: not given, or "AB"
OptionReaders == { <<>>, ReaderAB }

InitOptions ==
  /\ readers = <<ReaderZ, ReaderAB>>
  /\ hint \in { <<>>, ReaderB }
  /\ timeout = TimeoutOf(0)
  /\ optReader \in OptionReaders
  /\ ReadIdle
  /\ TxIdle
  /\ sesHint = [s \in Sessions |-> <<>>]
  /\ SesIdle
  /\ FnIdle
  /\ LdIdle
  /\ BudIdle

SpecOptions == InitOptions /\ [][Next]_vars

(***************************************************************************)
(* Card.transmit.  The wrapper hands the call to the native binding; the   *)
(* protocol of the native side is taken from its specification: one        *)
(* exchange, GET RESPONSE chaining on 61xx up to maxGetResponse, one       *)
(* reissue on 6Cxx, no retry.                                              *)
(***************************************************************************)
\* the commands transmit is called with
TxCommands == { CMD_SELECT, CMD_CID }
\* the values of maxGetResponse, the default among them
TxMaxGetChoices == { 1, DEFAULT_MAX_GET_RESPONSE }
\* status words the card answers: 9000, 6102, 6105, 6C04, 6A82
TxStatusWords == { <<144, 0>>, <<97, 2>>, <<97, 5>>, <<108, 4>>, <<106, 130>> }
\* the data of the k-th answer
TxData(k) == IF k = 1 THEN { <<1>>, <<1, 0>> } ELSE { <<k>> }
\* the answers of the channel to the k-th exchange
TxAnswers(k) ==
  { Result(sw, d) : sw \in TxStatusWords, d \in TxData(k) }
    \cup { Fault(<<84, 114, 97, 110, 115, 97, 99, 116, 105, 111, 110, 32, 102, 97, 105, 108, 101, 100>>) }

\* GET RESPONSE: class 0x00, instruction 0xC0, length n
GetResponseCmd(n) == <<0, 192, 0, 0, n>>

\* the original command with the requested length substituted
WithLength(command, n) == [command EXCEPT ![Len(command)] = n]

\* a variant of TxNextStep: the limit is tested after the GET RESPONSE
TxNextStepOneMore(sw1, iter, maxGet, reissued) ==
  IF sw1 = 97 THEN (IF iter <= maxGet THEN "getResponse" ELSE "done")
  ELSE IF sw1 = 108 /\ ~reissued THEN "reissue"
  ELSE "done"

\* a variant of TxNextStep: GET RESPONSE is issued after a success too
TxNextStepGetAfterSuccess(sw1, iter, maxGet, reissued) ==
  IF sw1 = 97 \/ sw1 = 144 THEN (IF iter < maxGet THEN "getResponse" ELSE "done")
  ELSE IF sw1 = 108 /\ ~reissued THEN "reissue"
  ELSE "done"

\* a variant of TxNextStep: every 6Cxx answer is followed by a reissue
TxNextStepReissueAlways(sw1, iter, maxGet, reissued) ==
  IF sw1 = 97 THEN (IF iter < maxGet THEN "getResponse" ELSE "done")
  ELSE IF sw1 = 108 THEN "reissue"
  ELSE "done"

\* what transmit does after an exchange that ended with status sw1
TxNextStep(sw1, iter, maxGet, reissued) ==
  IF sw1 = 97 THEN (IF iter < maxGet THEN "getResponse" ELSE "done")
  ELSE IF sw1 = 108 /\ ~reissued THEN "reissue"
  ELSE "done"

\* one exchange of transmit: `sent` goes out, `r` comes back
TxExchange(sent, r, iter, reissued) ==
  /\ txSent' = Append(txSent, sent)
  /\ txResps' = Append(txResps, r)
  /\ txIter' = iter
  /\ txReissued' = reissued
  /\ UNCHANGED budVars
  /\ UNCHANGED ldVars
  /\ UNCHANGED <<readVars, sesVars, fnVars>>
  /\ IF r.kind = "fault"
     THEN /\ txPc' = "done"
          /\ txResult' = "fault"
          /\ UNCHANGED <<txAcc, txSw>>
     ELSE /\ txAcc' = txAcc \o r.data
          /\ txSw' = <<r.sw1, r.sw2>>
          /\ txPc' = TxNextStep(r.sw1, iter, txMaxGet, reissued)
          /\ txResult' = IF TxNextStep(r.sw1, iter, txMaxGet, reissued) = "done"
                         THEN "returned" ELSE "none"

\* transmit is entered: the command is sent
TxSend ==
  /\ txPc = "idle"
  /\ txSent = <<>>
  /\ UNCHANGED <<txCommand, txMaxGet>>
  /\ \E r \in TxAnswers(1) : TxExchange(txCommand, r, 0, FALSE)

\* the status was 61xx: GET RESPONSE for xx bytes
TxGetResponse ==
  /\ txPc = "getResponse"
  /\ UNCHANGED <<txCommand, txMaxGet>>
  /\ \E r \in TxAnswers(Len(txSent) + 1) :
       TxExchange(GetResponseCmd(txSw[2]), r, txIter + 1, txReissued)

\* the status was 6Cxx: the command again, with length xx
TxReissue ==
  /\ txPc = "reissue"
  /\ UNCHANGED <<txCommand, txMaxGet>>
  /\ \E r \in TxAnswers(Len(txSent) + 1) :
       TxExchange(WithLength(txCommand, txSw[2]), r, txIter, TRUE)

InitTransmit ==
  /\ readers = <<>>
  /\ hint = <<>>
  /\ timeout = DEFAULT_TIMEOUT
  /\ optReader = <<>>
  /\ ReadIdle
  /\ txPc = "idle"
  /\ txCommand \in TxCommands
  /\ txMaxGet \in TxMaxGetChoices
  /\ txAcc = <<>>
  /\ txSw = <<0, 0>>
  /\ txIter = 0
  /\ txReissued = FALSE
  /\ txSent = <<>>
  /\ txResps = <<>>
  /\ txResult = "none"
  /\ sesHint = [s \in Sessions |-> <<>>]
  /\ SesIdle
  /\ FnIdle
  /\ LdIdle
  /\ BudIdle

NextTransmit ==
  \/ TxSend
  \/ TxGetResponse
  \/ TxReissue

SpecTransmit == InitTransmit /\ [][NextTransmit]_vars

(***************************************************************************)
(* Two readCard calls in progress at once on one ThaiIDCardReader.  Each   *)
(* call runs the steps of readCard; the calls interleave at their awaits.  *)
(* reader.connect is called with ShareMode.Shared, so a reader that        *)
(* already has a connection accepts another one.                           *)
(***************************************************************************)
\* one more event on the Card of a call: who acted and what was called;
\* transmits that follow one another are kept as one entry
LogEvent(log, s, ev) ==
  IF ev = "transmit" /\ log # <<>> /\ log[Len(log)] = [by |-> s, ev |-> ev]
  THEN log
  ELSE Append(log, [by |-> s, ev |-> ev])

\* the finally block of call s; log is the log of its Card so far
SesFinally(s, log) ==
  /\ sesPc' = [sesPc EXCEPT ![s] = "done"]
  /\ sesCard' = [sesCard EXCEPT ![s] =
                   IF FinallyDisconnects(sesCard[s] = "open") > 0
                   THEN "closed" ELSE sesCard[s]]
  /\ sesLog' = [sesLog EXCEPT ![s] =
                  IF FinallyDisconnects(sesCard[s] = "open") > 0
                  THEN LogEvent(log, s, "disconnect") ELSE log]

\* listReaders, the reader selection and getStatus
SesStart(s) ==
  /\ sesPc[s] = "start"
  /\ UNCHANGED budVars
  /\ UNCHANGED ldVars
  /\ UNCHANGED <<readVars, txVars, fnVars, sesHint, sesCard, sesCmd, sesAttempt, busOrder,
                 sesLog>>
  /\ IF Len(readers) = 0 \/ SelectReader(readers, sesHint[s]) = <<>>
     THEN /\ sesPc' = [sesPc EXCEPT ![s] = "done"]
          /\ UNCHANGED sesReader
     ELSE /\ sesReader' = [sesReader EXCEPT ![s] = SelectReader(readers, sesHint[s])]
          /\ \E present \in BOOLEAN :
               sesPc' = [sesPc EXCEPT ![s] =
                           IF present THEN "readyDelay" ELSE "waitCard"]

\* await waitForCard, then the check of cardStatus.present
SesWaitForCard(s) ==
  /\ sesPc[s] = "waitCard"
  /\ UNCHANGED budVars
  /\ UNCHANGED ldVars
  /\ UNCHANGED <<readVars, txVars, fnVars, sesHint, sesReader, sesCard, sesCmd, sesAttempt,
                 busOrder, sesLog>>
  /\ \E answer \in {"present", "absent", "fault"} :
       sesPc' = [sesPc EXCEPT ![s] =
                   IF answer = "present" THEN "readyDelay" ELSE "done"]

\* await CARD_READY_DELAY_MS, then reader.connect(selectedReader,
\* ShareMode.Shared): it returns a Card or raises, whatever the other call
\* holds
SesConnect(s) ==
  /\ sesPc[s] = "readyDelay"
  /\ UNCHANGED budVars
  /\ UNCHANGED ldVars
  /\ UNCHANGED <<readVars, txVars, fnVars, sesHint, sesReader, sesCmd, sesAttempt, busOrder>>
  /\ \E connected \in BOOLEAN :
       IF connected
       THEN /\ sesCard' = [sesCard EXCEPT ![s] = "open"]
            /\ sesPc' = [sesPc EXCEPT ![s] = "connectedDelay"]
            /\ sesLog' = [sesLog EXCEPT ![s] = LogEvent(sesLog[s], s, "connect")]
       ELSE SesFinally(s, sesLog[s])

\* await CARD_READY_DELAY_MS after connect; readCardData is entered
SesCardReadyDelay(s) ==
  /\ sesPc[s] = "connectedDelay"
  /\ sesPc' = [sesPc EXCEPT ![s] = "send"]
  /\ UNCHANGED budVars
  /\ UNCHANGED ldVars
  /\ UNCHANGED <<readVars, txVars, fnVars, sesHint, sesReader, sesCard, sesCmd, sesAttempt,
                 busOrder, sesLog>>

\* one pass of sendAPDU's loop body in call s
SesTransmit(s) ==
  /\ sesPc[s] = "send"
  /\ UNCHANGED budVars
  /\ UNCHANGED ldVars
  /\ UNCHANGED <<readVars, txVars, fnVars, sesHint, sesReader, sesCmd, sesAttempt>>
  /\ busOrder' =
       LET order == busOrder[sesReader[s]] IN
       IF (order # <<>> /\ order[Len(order)] = s) \/ Len(order) >= MaxBusOrder
       THEN busOrder
       ELSE [busOrder EXCEPT ![sesReader[s]] = Append(order, s)]
  /\ \E o \in Outcomes(sesCmd[s]) :
       LET log == LogEvent(sesLog[s], s, "transmit") IN
       IF Acceptable(o)
       THEN /\ sesPc' = [sesPc EXCEPT ![s] = "pause"]
            /\ sesLog' = [sesLog EXCEPT ![s] = log]
            /\ UNCHANGED sesCard
       ELSE IF ShouldRetry(sesAttempt[s])
       THEN /\ sesPc' = [sesPc EXCEPT ![s] = "retryWait"]
            /\ sesLog' = [sesLog EXCEPT ![s] = log]
            /\ UNCHANGED sesCard
       ELSE SesFinally(s, log)

\* sendAPDU: await setTimeout(100), continue
SesRetryWait(s) ==
  /\ sesPc[s] = "retryWait"
  /\ sesPc' = [sesPc EXCEPT ![s] = "send"]
  /\ sesAttempt' = [sesAttempt EXCEPT ![s] = sesAttempt[s] + 1]
  /\ UNCHANGED budVars
  /\ UNCHANGED ldVars
  /\ UNCHANGED <<readVars, txVars, fnVars, sesHint, sesReader, sesCard, sesCmd, busOrder,
                 sesLog>>

\* readCardData: the pause after a command that succeeded, then the next
\* sendAPDU, or the record and the finally block
SesPause(s) ==
  /\ sesPc[s] = "pause"
  /\ UNCHANGED budVars
  /\ UNCHANGED ldVars
  /\ UNCHANGED <<readVars, txVars, fnVars, sesHint, sesReader, busOrder>>
  /\ IF NextCmd(sesCmd[s]) <= LastCmd
     THEN /\ sesCmd' = [sesCmd EXCEPT ![s] = NextCmd(sesCmd[s])]
          /\ sesAttempt' = [sesAttempt EXCEPT ![s] = 0]
          /\ sesPc' = [sesPc EXCEPT ![s] = "send"]
          /\ UNCHANGED <<sesCard, sesLog>>
     ELSE /\ UNCHANGED <<sesCmd, sesAttempt>>
          /\ SesFinally(s, sesLog[s])

InitSessions ==
  /\ readers = <<ReaderZ, ReaderAB>>
  /\ hint = <<>>
  /\ timeout = DEFAULT_TIMEOUT
  /\ optReader = <<>>
  /\ ReadIdle
  /\ TxIdle
  /\ sesHint \in [Sessions -> {<<>>, ReaderB}]
  /\ SesIdle
  /\ FnIdle
  /\ LdIdle
  /\ BudIdle

NextSessions ==
  \E s \in Sessions :
    \/ SesStart(s)
    \/ SesWaitForCard(s)
    \/ SesConnect(s)
    \/ SesCardReadyDelay(s)
    \/ SesTransmit(s)
    \/ SesRetryWait(s)
    \/ SesPause(s)

SpecSessions == InitSessions /\ [][NextSessions]_vars

(***************************************************************************)
(* The parsing part of readCardData on its own: the 8 raw buffers and the  *)
(* photo parts are whatever the card returned, and the record is built     *)
(* from them.                                                              *)
(***************************************************************************)
\* raw buffers a card may return for the field at position c (1..8):
\* well-formed, short, empty, padded and malformed ones
RawChoices(c) ==
  CASE c = 1 -> { <<49, 49, 48, 49, 55, 48, 48, 50, 48, 51, 52, 53, 49>>,
                  <<49, 49, 48, 49, 55, 48, 48, 50, 48, 51, 52, 53>>,
                  <<>> }
    [] c = 2 -> { <<185, 210, 194, 35, 202, 193, 0, 0>>, <<35, 35, 0>>, <<>> }
    [] c = 3 -> { <<77, 114, 46, 35, 65, 35, 66, 35, 35, 35, 35>>, <<>> }
    [] c = 4 -> { <<50, 53, 51, 48, 48, 49, 49, 53>>,
                  <<50, 53, 51, 48, 48, 49, 49>>,
                  <<>> }
    [] c = 5 -> { <<>>, <<1>>, <<49>>, <<2>>, <<50>>, <<51>>, <<0>> }
    [] c = 6 -> { <<57, 57, 32, 161, 183, 193, 46, 35, 35>>, <<0, 0>> }
    [] c = 7 -> { <<50, 48, 50, 48, 48, 53, 50, 48>>, <<50, 48>> }
    [] OTHER -> { <<50, 48, 50, 57, 48, 49, 49, 52>>,
                  <<0, 0, 0, 0, 0, 0, 0, 0>>,
                  <<0>>,
                  <<50, 48, 50, 57>>,
                  <<>> }

\* the buffers cidData .. expireData at the "Parse data" comment
RawFields ==
  { <<f1, f2, f3, f4, f5, f6, f7, f8>> :
      f1 \in RawChoices(1), f2 \in RawChoices(2), f3 \in RawChoices(3),
      f4 \in RawChoices(4), f5 \in RawChoices(5), f6 \in RawChoices(6),
      f7 \in RawChoices(7), f8 \in RawChoices(8) }

\* photoParts at that point
RawPhotoParts == { <<>>, << <<255, 216>>, <<217>> >> }

\* readCardData has read every buffer and is about to parse
InitParse ==
  /\ readers = <<ReaderZ, ReaderAB>>
  /\ hint = <<>>
  /\ timeout = DEFAULT_TIMEOUT
  /\ optReader = <<>>
  /\ statusArgs = <<ReaderZ>>
  /\ waitArgs = <<>>
  /\ connectArgs = <<ReaderZ>>
  /\ selectedReader = ReaderZ
  /\ pc = "parse"
  /\ channel = "open"
  /\ connectCalls = 1
  /\ disconnectCalls = 0
  /\ disconnectThrew = FALSE
  /\ cmd = 0
  /\ attempt = 0
  /\ sends = 0
  /\ waits = 0
  /\ sendResult = "none"
  /\ returned = <<>>
  /\ thrown = <<>>
  /\ failKinds = {}
  /\ lastOutcome = NoOutcome
  /\ issued = <<>>
  /\ gaps = <<>>
  /\ sinceLast = 0
  /\ completed = <<>>
  /\ fieldData \in RawFields
  /\ photoParts \in RawPhotoParts
  /\ settled = "pending"
  /\ errorMessage = <<>>
  /\ caught = <<>>
  /\ escaped = "none"
  /\ record = NoRecord
  /\ TxIdle
  /\ sesHint = [s \in Sessions |-> <<>>]
  /\ SesIdle
  /\ FnIdle
  /\ LdIdle
  /\ BudIdle

\* readCardData from "Parse data" to its return, and the finally block
ParseData ==
  /\ pc = "parse"
  /\ UNCHANGED budVars
  /\ UNCHANGED ldVars
  /\ UNCHANGED <<txVars, sesVars, fnVars, envVars, selectedReader, callVars, sendVars, logVars,
                 dataVars>>
  /\ \E iconvThrows \in BOOLEAN, dthrow \in BOOLEAN :
       ReturnRecord(fieldData, photoParts, iconvThrows, dthrow)

NextParse == ParseData

SpecParse == InitParse /\ [][NextParse]_vars

(***************************************************************************)
(* The parsers called on their own, on buffers of any content.             *)
(***************************************************************************)
\* buffers of 12 bytes: "202401159912", "253001150000", "20a401150000",
\* "2024-01-1500", "20 401150000", one with a NUL, one with bytes above
\* 0x7F, and "00000000" followed by "ABCD"
DateBases ==
  { <<50, 48, 50, 52, 48, 49, 49, 53, 57, 57, 49, 50>>,
    <<50, 53, 51, 48, 48, 49, 49, 53, 48, 48, 48, 48>>,
    <<50, 48, 97, 52, 48, 49, 49, 53, 48, 48, 48, 48>>,
    <<50, 48, 50, 52, 45, 48, 49, 45, 49, 53, 48, 48>>,
    <<50, 48, 32, 52, 48, 49, 49, 53, 48, 48, 48, 48>>,
    <<49, 57, 57, 57, 0, 50, 51, 49, 48, 48, 48, 48>>,
    <<178, 176, 50, 52, 48, 49, 49, 181, 48, 48, 48, 48>>,
    <<48, 48, 48, 48, 48, 48, 48, 48, 65, 66, 67, 68>> }

\* the buffers formatDate is called with: every prefix of a base, up to
\* MaxDateLen bytes
DateInputs ==
  { SubSeq(b, 1, n) : b \in DateBases, n \in 0..(IF MaxDateLen < 12 THEN MaxDateLen ELSE 12) }

\* the bytes of the buffers parseThaiText is called with: NUL, '#', space,
\* 'A', line feed, DEL, 0x80, 0xA1, 0xDB, 0xFB
TextBytes == { 0, 35, 32, 65, 10, 127, 128, 161, 219, 251 }

RECURSIVE BuffersUpTo(_)
BuffersUpTo(n) ==
  IF n = 0 THEN { <<>> }
  ELSE BuffersUpTo(n - 1)
         \cup { Append(b, x) : b \in { c \in BuffersUpTo(n - 1) : Len(c) = n - 1 },
                               x \in TextBytes }

TextInputs == BuffersUpTo(MaxTextLen)

\* every part of the model but the parser call is at rest
RestIdle ==
  /\ readers = <<>>
  /\ hint = <<>>
  /\ timeout = TimeoutOf(0)
  /\ optReader = <<>>
  /\ ReadIdle
  /\ TxIdle
  /\ sesHint = [s \in Sessions |-> <<>>]
  /\ SesIdle
  /\ BudIdle
  /\ LdIdle

InitDate ==
  /\ RestIdle
  /\ fnPc = "called"
  /\ fnIn \in DateInputs
  /\ fnOut = <<>>

\* formatDate(data) runs and returns
CallFormatDate ==
  /\ fnPc = "called"
  /\ fnPc' = "done"
  /\ fnOut' = formatDate(fnIn)
  /\ UNCHANGED budVars
  /\ UNCHANGED ldVars
  /\ UNCHANGED <<readVars, txVars, sesVars, fnIn>>

NextDate == CallFormatDate

SpecDate == InitDate /\ [][NextDate]_vars

InitText ==
  /\ RestIdle
  /\ fnPc = "called"
  /\ fnIn \in TextInputs
  /\ fnOut = <<>>

\* parseThaiText(data) runs and returns: iconv.decode returns, or it raises
\* and the catch branch converts
CallParseThaiText ==
  /\ fnPc = "called"
  /\ \E iconvThrows \in BOOLEAN :
       /\ fnPc' = IF iconvThrows THEN "fallback" ELSE "table"
       /\ fnOut' = parseThaiText(fnIn, iconvThrows)
  /\ UNCHANGED budVars
  /\ UNCHANGED ldVars
  /\ UNCHANGED <<readVars, txVars, sesVars, fnIn>>

NextText == CallParseThaiText

SpecText == InitText /\ [][NextText]_vars

(***************************************************************************)
(* One readCard call with its card.transmitWithRetry calls counted.  Every *)
(* channel call returns or throws, and every awaited timer fires.          *)
(***************************************************************************)
\* listReaders .. connect: the call reaches readCardData or fails before it
BudOpen ==
  /\ budPc = "start"
  /\ UNCHANGED ldVars
  /\ UNCHANGED <<readVars, txVars, sesVars, fnVars>>
  /\ UNCHANGED <<budCmd, budAttempt, budCalls, budPerCmd, budChunks>>
  /\ \E connected \in BOOLEAN :
       budPc' = IF connected THEN "send" ELSE "done"

\* one pass of sendAPDU's loop body: one card.transmitWithRetry call
BudTransmit ==
  /\ budPc = "send"
  /\ UNCHANGED ldVars
  /\ UNCHANGED <<readVars, txVars, sesVars, fnVars>>
  /\ UNCHANGED <<budCmd, budAttempt>>
  /\ budCalls' = budCalls + 1
  /\ budPerCmd' = budPerCmd + 1
  /\ budChunks' = IF IsPhotoCmd(budCmd)
                   THEN budChunks \cup {budCmd - NUM_FIELDS - 1} ELSE budChunks
  /\ \E o \in Outcomes(budCmd) :
       IF Acceptable(o) THEN budPc' = "pause"
       ELSE IF ShouldRetry(budAttempt) THEN budPc' = "retryWait"
       ELSE \* sendAPDU throws: the photo loop breaks, readCard settles
            budPc' = "done"

\* sendAPDU: await setTimeout(100), continue
BudRetryWait ==
  /\ budPc = "retryWait"
  /\ UNCHANGED ldVars
  /\ UNCHANGED <<readVars, txVars, sesVars, fnVars>>
  /\ budPc' = "send"
  /\ budAttempt' = budAttempt + 1
  /\ UNCHANGED <<budCmd, budCalls, budPerCmd, budChunks>>

\* readCardData: the pause after a command that succeeded, then the next
\* sendAPDU, or the end of the photo loop
BudPause ==
  /\ budPc = "pause"
  /\ UNCHANGED ldVars
  /\ UNCHANGED <<readVars, txVars, sesVars, fnVars>>
  /\ UNCHANGED <<budCalls, budChunks>>
  /\ IF NextCmd(budCmd) <= LastCmd
     THEN /\ budCmd' = NextCmd(budCmd)
          /\ budAttempt' = 0
          /\ budPerCmd' = 0
          /\ budPc' = "send"
     ELSE /\ budPc' = "done"
          /\ UNCHANGED <<budCmd, budAttempt, budPerCmd>>

InitBudget ==
  /\ readers = <<>>
  /\ hint = <<>>
  /\ timeout = TimeoutOf(0)
  /\ optReader = <<>>
  /\ ReadIdle
  /\ TxIdle
  /\ sesHint = [s \in Sessions |-> <<>>]
  /\ SesIdle
  /\ FnIdle
  /\ LdIdle
  /\ budPc = "start"
  /\ budCmd = 0
  /\ budAttempt = 0
  /\ budCalls = 0
  /\ budPerCmd = 0
  /\ budChunks = {}

NextBudget ==
  \/ BudOpen
  \/ BudTransmit
  \/ BudRetryWait
  \/ BudPause

\* every enabled step is taken in the end: calls return, timers fire
SpecBudget == InitBudget /\ [][NextBudget]_vars /\ WF_vars(NextBudget)

(***************************************************************************)
(* The catch block of readCard on its own: a value is caught, its text is  *)
(* classified.  The value is an Error with a message, or a value that is   *)
(* not an Error, whose text is String(value).                              *)
(***************************************************************************)
\* pieces of fault texts: the keywords of the catch block, the no-card
\* message and 'x'
Fragments ==
  { STR_timeout, STR_unpowered, STR_power, STR_unresponsive, STR_respond,
    STR_No_card, MSG_NO_CARD, <<120>> }

\* the texts made of at most n pieces, a space after each piece
RECURSIVE TextsUpTo(_)
TextsUpTo(n) ==
  IF n = 0 THEN { <<>> }
  ELSE LET shorter == TextsUpTo(n - 1) IN
       shorter \cup { f \o <<32>> \o s : f \in Fragments, s \in shorter }

ClassifyInputs == TextsUpTo(MaxFragments)

InitClassify ==
  /\ RestIdle
  /\ fnPc = "called"
  /\ fnIn \in ClassifyInputs
  /\ fnOut = <<>>

\* the catch block runs on a caught Error whose message is fnIn, or on a
\* caught value that is not an Error and whose string form is fnIn
CallClassify ==
  /\ fnPc = "called"
  /\ \E isError \in BOOLEAN :
       /\ fnPc' = IF isError THEN "caughtError" ELSE "caughtValue"
       /\ fnOut' = IF isError THEN ClassifyError(fnIn) ELSE ClassifyText(fnIn)
  /\ UNCHANGED ldVars
  /\ UNCHANGED <<readVars, txVars, sesVars, fnIn>>
  /\ UNCHANGED budVars

NextClassify == CallClassify

SpecClassify == InitClassify /\ [][NextClassify]_vars

(***************************************************************************)
(* The native-binding loader: the names of the binaries, the keywords of   *)
(* its tests and the messages a failing require may carry.                 *)
(***************************************************************************)
\* 'thai-smartcard.node'
BIN_DEV ==
  <<116, 104, 97, 105, 45, 115, 109, 97, 114, 116, 99, 97, 114, 100, 46,
    110, 111, 100, 101>>
\* 'index.node'
BIN_INDEX ==
  <<105, 110, 100, 101, 120, 46, 110, 111, 100, 101>>
\* 'thai-smartcard.darwin-arm64.node'
BIN_DARWIN_ARM64 ==
  <<116, 104, 97, 105, 45, 115, 109, 97, 114, 116, 99, 97, 114, 100, 46,
    100, 97, 114, 119, 105, 110, 45, 97, 114, 109, 54, 52, 46, 110, 111,
    100, 101>>
\* 'thai-smartcard.darwin-x64.node'
BIN_DARWIN_X64 ==
  <<116, 104, 97, 105, 45, 115, 109, 97, 114, 116, 99, 97, 114, 100, 46,
    100, 97, 114, 119, 105, 110, 45, 120, 54, 52, 46, 110, 111, 100, 101>>
\* 'thai-smartcard.linux-arm64-gnu.node'
BIN_LINUX_ARM64_GNU ==
  <<116, 104, 97, 105, 45, 115, 109, 97, 114, 116, 99, 97, 114, 100, 46,
    108, 105, 110, 117, 120, 45, 97, 114, 109, 54, 52, 45, 103, 110, 117,
    46, 110, 111, 100, 101>>
\* 'thai-smartcard.linux-x64-gnu.node'
BIN_LINUX_X64_GNU ==
  <<116, 104, 97, 105, 45, 115, 109, 97, 114, 116, 99, 97, 114, 100, 46,
    108, 105, 110, 117, 120, 45, 120, 54, 52, 45, 103, 110, 117, 46, 110,
    111, 100, 101>>
\* 'thai-smartcard.linux-arm64-musl.node'
BIN_LINUX_ARM64_MUSL ==
  <<116, 104, 97, 105, 45, 115, 109, 97, 114, 116, 99, 97, 114, 100, 46,
    108, 105, 110, 117, 120, 45, 97, 114, 109, 54, 52, 45, 109, 117, 115,
    108, 46, 110, 111, 100, 101>>
\* 'thai-smartcard.linux-x64-musl.node'
BIN_LINUX_X64_MUSL ==
  <<116, 104, 97, 105, 45, 115, 109, 97, 114, 116, 99, 97, 114, 100, 46,
    108, 105, 110, 117, 120, 45, 120, 54, 52, 45, 109, 117, 115, 108, 46,
    110, 111, 100, 101>>
\* 'thai-smartcard.win32-arm64-msvc.node'
BIN_WIN32_ARM64 ==
  <<116, 104, 97, 105, 45, 115, 109, 97, 114, 116, 99, 97, 114, 100, 46,
    119, 105, 110, 51, 50, 45, 97, 114, 109, 54, 52, 45, 109, 115, 118, 99,
    46, 110, 111, 100, 101>>
\* 'thai-smartcard.win32-x64-msvc.node'
BIN_WIN32_X64 ==
  <<116, 104, 97, 105, 45, 115, 109, 97, 114, 116, 99, 97, 114, 100, 46,
    119, 105, 110, 51, 50, 45, 120, 54, 52, 45, 109, 115, 118, 99, 46, 110,
    111, 100, 101>>
\* '-gnu.node'
STR_gnu_node ==
  <<45, 103, 110, 117, 46, 110, 111, 100, 101>>
\* '-musl.node'
STR_musl_node ==
  <<45, 109, 117, 115, 108, 46, 110, 111, 100, 101>>
\* '.node'
STR_dot_node ==
  <<46, 110, 111, 100, 101>>
\* 'ld-linux-x86-64.so.2'
STR_ld_linux_x86_64 ==
  <<108, 100, 45, 108, 105, 110, 117, 120, 45, 120, 56, 54, 45, 54, 52, 46,
    115, 111, 46, 50>>
\* 'ld-linux-aarch64.so.1'
STR_ld_linux_aarch64 ==
  <<108, 100, 45, 108, 105, 110, 117, 120, 45, 97, 97, 114, 99, 104, 54,
    52, 46, 115, 111, 46, 49>>
\* 'Error loading shared library'
STR_Error_loading ==
  <<69, 114, 114, 111, 114, 32, 108, 111, 97, 100, 105, 110, 103, 32, 115,
    104, 97, 114, 101, 100, 32, 108, 105, 98, 114, 97, 114, 121>>
\* 'libpcsclite'
STR_libpcsclite ==
  <<108, 105, 98, 112, 99, 115, 99, 108, 105, 116, 101>>
\* 'pcsclite'
STR_pcsclite ==
  <<112, 99, 115, 99, 108, 105, 116, 101>>
\* 'No such file'
STR_No_such_file ==
  <<78, 111, 32, 115, 117, 99, 104, 32, 102, 105, 108, 101>>
\* a load failure: 'Error loading shared library ld-linux-x86-64.so.2: No such file or directory'
ERR_NO_X86_LINKER ==
  <<69, 114, 114, 111, 114, 32, 108, 111, 97, 100, 105, 110, 103, 32, 115,
    104, 97, 114, 101, 100, 32, 108, 105, 98, 114, 97, 114, 121, 32, 108,
    100, 45, 108, 105, 110, 117, 120, 45, 120, 56, 54, 45, 54, 52, 46, 115,
    111, 46, 50, 58, 32, 78, 111, 32, 115, 117, 99, 104, 32, 102, 105, 108,
    101, 32, 111, 114, 32, 100, 105, 114, 101, 99, 116, 111, 114, 121>>
\* a load failure: 'ld-linux-aarch64.so.1: bad ELF interpreter'
ERR_NO_AARCH64_LINKER ==
  <<108, 100, 45, 108, 105, 110, 117, 120, 45, 97, 97, 114, 99, 104, 54,
    52, 46, 115, 111, 46, 49, 58, 32, 98, 97, 100, 32, 69, 76, 70, 32, 105,
    110, 116, 101, 114, 112, 114, 101, 116, 101, 114>>
\* a load failure: 'Error loading shared library libpcsclite.so.1: No such file or directory'
ERR_SHARED_PCSC ==
  <<69, 114, 114, 111, 114, 32, 108, 111, 97, 100, 105, 110, 103, 32, 115,
    104, 97, 114, 101, 100, 32, 108, 105, 98, 114, 97, 114, 121, 32, 108,
    105, 98, 112, 99, 115, 99, 108, 105, 116, 101, 46, 115, 111, 46, 49,
    58, 32, 78, 111, 32, 115, 117, 99, 104, 32, 102, 105, 108, 101, 32,
    111, 114, 32, 100, 105, 114, 101, 99, 116, 111, 114, 121>>
\* a load failure: 'libpcsclite.so.1: cannot open shared object file'
ERR_NO_PCSC ==
  <<108, 105, 98, 112, 99, 115, 99, 108, 105, 116, 101, 46, 115, 111, 46,
    49, 58, 32, 99, 97, 110, 110, 111, 116, 32, 111, 112, 101, 110, 32,
    115, 104, 97, 114, 101, 100, 32, 111, 98, 106, 101, 99, 116, 32, 102,
    105, 108, 101>>
\* a load failure: 'libudev.so.1: No such file or directory'
ERR_NO_SUCH_FILE ==
  <<108, 105, 98, 117, 100, 101, 118, 46, 115, 111, 46, 49, 58, 32, 78,
    111, 32, 115, 117, 99, 104, 32, 102, 105, 108, 101, 32, 111, 114, 32,
    100, 105, 114, 101, 99, 116, 111, 114, 121>>
\* a load failure: 'invalid ELF header'
ERR_BAD_ELF ==
  <<105, 110, 118, 97, 108, 105, 100, 32, 69, 76, 70, 32, 104, 101, 97,
    100, 101, 114>>

\* the ten binaries the loader knows
AllBinaries ==
  { BIN_DEV, BIN_INDEX, BIN_DARWIN_ARM64, BIN_DARWIN_X64, BIN_LINUX_ARM64_GNU,
    BIN_LINUX_X64_GNU, BIN_LINUX_ARM64_MUSL, BIN_LINUX_X64_MUSL, BIN_WIN32_ARM64,
    BIN_WIN32_X64 }

\* the messages of the Error a failing require throws
RequireErrors ==
  { ERR_NO_X86_LINKER, ERR_NO_AARCH64_LINKER, ERR_SHARED_PCSC, ERR_NO_PCSC,
    ERR_NO_SUCH_FILE, ERR_BAD_ELF }

\* the two versions of loadBinding in the repository
LoaderVersions == {"part_000", "index.ts"}

\* values of process.platform and process.arch
Platforms == {"darwin", "linux", "win32", "freebsd"}
Archs == {"arm64", "x64", "ia32"}

\* __dirname, '/pkg', and path.join
PackageRoot == <<47, 112, 107, 103>>
Join(root, name) == root \o <<47>> \o name

\* the sets of at most n elements of S
RECURSIVE SubsetsUpTo(_, _)
SubsetsUpTo(S, n) ==
  IF n = 0 THEN { {} }
  ELSE LET smaller == SubsetsUpTo(S, n - 1) IN
       smaller \cup { T \cup {x} : T \in smaller, x \in S }

\* the musl detection; lddOutput is "musl", "GNU" or "fails"
DetectMusl(version, platform, alpineRelease, glibcLinker, lddOutput) ==
  IF platform # "linux" THEN FALSE
  ELSE IF alpineRelease THEN TRUE
  ELSE IF version = "part_000" /\ ~glibcLinker THEN TRUE
  ELSE lddOutput = "musl"

\* platformBinary; <<>> is the empty string
PlatformBinary(platform, arch, isMusl) ==
  IF platform = "darwin"
  THEN IF arch = "arm64" THEN BIN_DARWIN_ARM64 ELSE BIN_DARWIN_X64
  ELSE IF platform = "linux"
  THEN IF isMusl
       THEN IF arch = "arm64" THEN BIN_LINUX_ARM64_MUSL ELSE BIN_LINUX_X64_MUSL
       ELSE IF arch = "arm64" THEN BIN_LINUX_ARM64_GNU ELSE BIN_LINUX_X64_GNU
  ELSE IF platform = "win32"
  THEN IF arch = "arm64" THEN BIN_WIN32_ARM64 ELSE BIN_WIN32_X64
  ELSE <<>>

\* platformBinaryAlt; <<>> is null
PlatformBinaryAlt(platform, arch, isMusl) ==
  IF platform = "linux"
  THEN IF isMusl
       THEN IF arch = "arm64" THEN BIN_LINUX_ARM64_GNU ELSE BIN_LINUX_X64_GNU
       ELSE IF arch = "arm64" THEN BIN_LINUX_ARM64_MUSL ELSE BIN_LINUX_X64_MUSL
  ELSE <<>>

\* a variant of MuslFallbacks: on musl the alternative binary is tried too
MuslFallbacksWithAlt(platform, arch) ==
  << PlatformBinaryAlt(platform, arch, TRUE) >>

\* part_000: what the list gets after the preferred binary on musl Linux
MuslFallbacks(platform, arch) == <<>>

\* part_000: what the list gets after the preferred binary on glibc Linux
GlibcFallbacks(platform, arch) ==
  << PlatformBinaryAlt(platform, arch, FALSE),
     IF arch = "arm64" THEN BIN_LINUX_ARM64_GNU ELSE BIN_LINUX_X64_GNU,
     BIN_LINUX_ARM64_MUSL, BIN_LINUX_X64_MUSL >>

\* a variant of BindingNamesPart000: the preferred binary comes before the
\* development builds
BindingNamesPreferredFirst(platform, arch, isMusl) ==
  LET preferred == PlatformBinary(platform, arch, isMusl) IN
  (IF preferred # <<>> THEN << preferred >> ELSE <<>>)
  \o << BIN_DEV, BIN_INDEX >>
  \o (IF platform = "linux"
      THEN IF isMusl THEN MuslFallbacks(platform, arch)
           ELSE GlibcFallbacks(platform, arch)
      ELSE <<>>)
  \o (IF platform # "linux" \/ ~isMusl
      THEN << BIN_DARWIN_ARM64, BIN_DARWIN_X64, BIN_LINUX_ARM64_GNU,
              BIN_LINUX_X64_GNU, BIN_WIN32_ARM64, BIN_WIN32_X64 >>
      ELSE <<>>)

\* the names of the list bindings of part_000, in order
BindingNamesPart000(platform, arch, isMusl) ==
  LET preferred == PlatformBinary(platform, arch, isMusl) IN
  << BIN_DEV, BIN_INDEX >>
  \o (IF preferred # <<>> THEN << preferred >> ELSE <<>>)
  \o (IF platform = "linux"
      THEN IF isMusl THEN MuslFallbacks(platform, arch)
           ELSE GlibcFallbacks(platform, arch)
      ELSE <<>>)
  \o (IF platform # "linux" \/ ~isMusl
      THEN << BIN_DARWIN_ARM64, BIN_DARWIN_X64, BIN_LINUX_ARM64_GNU,
              BIN_LINUX_X64_GNU, BIN_WIN32_ARM64, BIN_WIN32_X64 >>
      ELSE <<>>)

\* the names of the list bindings of index.ts, in order, nulls filtered out
BindingNamesIndexTs(platform, arch, isMusl) ==
  LET preferred == PlatformBinary(platform, arch, isMusl)
      alt       == PlatformBinaryAlt(platform, arch, isMusl)
  IN << BIN_DEV, BIN_INDEX >>
     \o (IF preferred # <<>> THEN << preferred >> ELSE <<>>)
     \o (IF alt # <<>> THEN << alt >> ELSE <<>>)
     \o << BIN_DARWIN_ARM64, BIN_DARWIN_X64, BIN_LINUX_ARM64_MUSL,
           BIN_LINUX_X64_MUSL, BIN_LINUX_ARM64_GNU, BIN_LINUX_X64_GNU,
           BIN_WIN32_ARM64, BIN_WIN32_X64 >>

\* the list bindings: every name joined to packageRoot
Bindings(version, platform, arch, isMusl) ==
  LET names == IF version = "part_000"
               THEN BindingNamesPart000(platform, arch, isMusl)
               ELSE BindingNamesIndexTs(platform, arch, isMusl)
  IN [i \in 1..Len(names) |-> Join(PackageRoot, names[i])]

\* part_000: the first test of the catch block on errorMessage
ReportsLinkerOrLibrary(message) ==
  \/ Includes(message, STR_ld_linux_x86_64)
  \/ Includes(message, STR_ld_linux_aarch64)
  \/ Includes(message, STR_Error_loading)

\* a variant of SkipsCandidate: every failing candidate is skipped
SkipsCandidateAlways(version, platform, binding, message) == TRUE

\* the catch block: whether the loop continues with the next candidate
SkipsCandidate(version, platform, binding, message) ==
  /\ version = "part_000"
  /\ ReportsLinkerOrLibrary(message)
  /\ platform = "linux"
  /\ Includes(binding, STR_gnu_node)

\* the catch block when it does not continue: "failed" is a new Error
\* 'Failed to load native binding: ...', "rethrown" is throw error
ThrowOf(version, platform, isMusl, binding, message) ==
  IF /\ version = "part_000"
     /\ ReportsLinkerOrLibrary(message)
     /\ isMusl
     /\ ~Includes(binding, STR_musl_node)
  THEN "failed"
  ELSE IF Includes(message, STR_libpcsclite) \/ Includes(message, STR_pcsclite)
  THEN "failed"
  ELSE IF /\ Includes(message, STR_No_such_file)
          /\ platform = "linux"
          /\ Includes(binding, STR_dot_node)
          /\ isMusl
  THEN "failed"
  ELSE "rethrown"

\* a variant of CacheAfterLoad: the loaded module is not kept
CacheAfterLoadNothing(loaded) == <<>>

\* nativeBinding = require(binding): what the module variable holds after
\* a require that returned; <<>> is null
CacheAfterLoad(loaded) == loaded

(***************************************************************************)
(* loadBinding, called when the module is loaded.  One step detects the   *)
(* libc, then every pass of the for loop is a step.                        *)
(***************************************************************************)
\* the list bindings of the call in progress
ldBindings == Bindings(ldVersion, ldPlatform, ldArch, ldIsMusl)

\* lines 12-50: platform, arch and the musl detection
LdDetect ==
  /\ ldPc = "detect"
  /\ UNCHANGED <<readVars, txVars, sesVars, fnVars, budVars>>
  /\ UNCHANGED <<ldVersion, ldPlatform, ldArch, ldExists, ldLog, nativeBinding,
                 ldReturned, ldThrown, ldTried>>
  /\ \E alpineRelease \in BOOLEAN, glibcLinker \in BOOLEAN,
        lddOutput \in {"musl", "GNU", "fails"} :
       ldIsMusl' = DetectMusl(ldVersion, ldPlatform, alpineRelease, glibcLinker,
                              lddOutput)
  /\ ldIndex' = 1
  /\ ldPc' = "search"

\* one pass of the for loop: existsSync, require, the catch block
LdExamine ==
  /\ ldPc = "search"
  /\ ldIndex <= Len(ldBindings)
  /\ UNCHANGED <<readVars, txVars, sesVars, fnVars, budVars>>
  /\ UNCHANGED <<ldVersion, ldPlatform, ldArch, ldExists, ldIsMusl, ldTried>>
  /\ LET binding == ldBindings[ldIndex] IN
     IF binding \notin ldExists
     THEN /\ ldIndex' = ldIndex + 1
          /\ UNCHANGED <<ldPc, ldLog, nativeBinding, ldReturned, ldThrown>>
     ELSE \/ \* require returns the module
             /\ nativeBinding' = CacheAfterLoad(binding)
             /\ ldReturned' = CacheAfterLoad(binding)
             /\ ldLog' = Append(ldLog, [binding |-> binding, error |-> <<>>,
                                         then |-> "return"])
             /\ ldPc' = "returned"
             /\ UNCHANGED <<ldIndex, ldThrown>>
          \/ \* require throws
             \E message \in RequireErrors :
               IF SkipsCandidate(ldVersion, ldPlatform, binding, message)
               THEN /\ ldIndex' = ldIndex + 1
                    /\ ldLog' = Append(ldLog, [binding |-> binding,
                                                error |-> message,
                                                then |-> "continue"])
                    /\ UNCHANGED <<ldPc, nativeBinding, ldReturned, ldThrown>>
               ELSE /\ ldThrown' = ThrowOf(ldVersion, ldPlatform, ldIsMusl, binding,
                                           message)
                    /\ ldLog' = Append(ldLog, [binding |-> binding,
                                                error |-> message,
                                                then |-> "throw"])
                    /\ ldPc' = "threw"
                    /\ UNCHANGED <<ldIndex, nativeBinding, ldReturned>>

\* the loop has ended: 'Cannot find native binding ... Tried: ...'
LdExhausted ==
  /\ ldPc = "search"
  /\ ldIndex > Len(ldBindings)
  /\ UNCHANGED <<readVars, txVars, sesVars, fnVars, budVars>>
  /\ UNCHANGED <<ldVersion, ldPlatform, ldArch, ldExists, ldIsMusl, ldIndex, ldLog,
                 nativeBinding, ldReturned>>
  /\ ldThrown' = "cannot find"
  /\ ldTried' = ldBindings
  /\ ldPc' = "threw"

\* loadBinding is called again: nativeBinding is set, it is returned
LdCallAgain ==
  /\ ldPc = "returned"
  /\ nativeBinding # <<>>
  /\ UNCHANGED <<readVars, txVars, sesVars, fnVars, budVars>>
  /\ UNCHANGED <<ldVersion, ldPlatform, ldArch, ldExists, ldIsMusl, ldIndex, ldLog,
                 nativeBinding, ldThrown, ldTried>>
  /\ ldReturned' = nativeBinding
  /\ ldPc' = "cached"

InitLoader ==
  /\ readers = <<>>
  /\ hint = <<>>
  /\ timeout = TimeoutOf(0)
  /\ optReader = <<>>
  /\ ReadIdle
  /\ TxIdle
  /\ sesHint = [s \in Sessions |-> <<>>]
  /\ SesIdle
  /\ FnIdle
  /\ BudIdle
  /\ ldVersion \in LoaderVersions
  /\ ldPlatform \in Platforms
  /\ ldArch \in Archs
  /\ ldExists \in SubsetsUpTo({ Join(PackageRoot, n) : n \in AllBinaries }, MaxOnDisk)
  /\ ldIsMusl = FALSE
  /\ ldIndex = 0
  /\ ldPc = "detect"
  /\ ldLog = <<>>
  /\ nativeBinding = <<>>
  /\ ldReturned = <<>>
  /\ ldThrown = "none"
  /\ ldTried = <<>>

NextLoader ==
  \/ LdDetect
  \/ LdExamine
  \/ LdExhausted
  \/ LdCallAgain

SpecLoader == InitLoader /\ [][NextLoader]_vars

(***************************************************************************)
(* Properties of readCard, readCardData and sendAPDU.                      *)
(***************************************************************************)
\* whether a transmitWithRetry outcome is a result with status 9000 or 61xx
StatusOk(o) ==
  /\ o.kind = "result"
  /\ ((o.sw1 = 144 /\ o.sw2 = 0) \/ o.sw1 = 97)

\* the data of the photo chunks the channel answered acceptably, in the
\* order the channel answered them
RECURSIVE ConcatData(_)
ConcatData(entries) ==
  IF entries = <<>> THEN <<>>
  ELSE Head(entries).data \o ConcatData(Tail(entries))

ChunkEntries == SubSeq(completed, NUM_FIELDS + 2, Len(completed))

\* C1: once connect has returned a Card, disconnect is called on it exactly
\* once before readCard settles, on every exit path, and never before.
C1_DisconnectExactlyOnce ==
  /\ disconnectCalls <= connectCalls
  /\ (pc # "done" => disconnectCalls = 0)
  /\ (pc = "done" /\ connectCalls = 1 => disconnectCalls = 1 /\ channel = "closed")

C1_Witness ==
  /\ pc = "done"
  /\ connectCalls = 1
  /\ settled = "error"
  /\ sendResult = "threw"
  /\ Includes(thrown, STR_timeout)
  /\ disconnectCalls = 1

\* C2: the commands are first sent in the order SELECT, citizen ID, Thai
\* name, English name, birth date, gender, address, issue date, expiry date,
\* photo chunks 0, 1, 2, ...; a command is first sent only after the one
\* before it ended with an acceptable status.
C2_FixedOrder ==
  << CMD_SELECT, CMD_CID, CMD_THAI_NAME, CMD_ENG_NAME, CMD_BIRTH, CMD_GENDER,
     CMD_ADDRESS, CMD_ISSUE, CMD_EXPIRE >>

C2_CommandOrder ==
  /\ Len(issued) <= 29
  /\ \A i \in 1..Len(issued) :
       issued[i] = IF i <= 9 THEN C2_FixedOrder[i]
                   ELSE <<128, 176, 122, 90 + (i - 10), 2, 0, 255>>
  /\ Len(completed) <= Len(issued)
  /\ \A i \in 2..Len(issued) :
       Len(completed) >= i - 1 /\ completed[i - 1].cmd = i - 2

C2_Witness == Len(issued) >= 11 /\ pc = "retryWait"

\* C3 as claimed: after a non-success status of SELECT the command is not
\* sent again, no field read is sent and the read fails.
C3_SelectSentOnce ==
  (cmd = 0 /\ "result" \in failKinds) =>
     /\ sends = 1
     /\ (pc = "done" => settled = "error" /\ Len(issued) = 1)

\* C3 as amended: SELECT goes through sendAPDU like every command: it is
\* sent at most 3 times; the read fails at SELECT only when all 3 attempts
\* failed, and then no field read has been sent.
C3_SelectRetriedThenFails ==
  /\ (cmd = 0 => sends <= 3 /\ Len(issued) <= 1 /\ fieldData = <<>>)
  /\ (cmd = 0 /\ sendResult = "threw" =>
        sends = 3 /\ pc = "done" /\ settled = "error" /\ Len(issued) = 1)
  /\ (cmd = 0 /\ pc = "done" /\ connectCalls = 1 => sendResult = "threw" /\ sends = 3)
  /\ (Len(issued) > 1 => Len(completed) >= 1 /\ completed[1].cmd = 0)

C3_Witness ==
  /\ cmd = 0
  /\ sendResult = "threw"
  /\ sends = 3
  /\ failKinds = {"result"}
  /\ settled = "error"

\* C4: the photo is the concatenation, in index order, of the data of
\* chunks 0..k-1, k being the first chunk whose read failed after its
\* retries, or 20; no chunk beyond k is requested.
C4_PhotoAssembly ==
  (pc = "done" /\ settled = "record") =>
     LET k == Len(completed) - 9 IN
     /\ k \in 0..20
     /\ \A j \in 1..k : completed[9 + j].cmd = 9 + (j - 1)
     /\ record.photo = Base64(ConcatData(ChunkEntries))
     /\ record.hasPhoto = (ConcatData(ChunkEntries) # <<>>)
     /\ (k < 20 => cmd = 9 + k /\ sendResult = "threw" /\ sends = 3)
     /\ Len(issued) <= 9 + k + 1
     /\ \A i \in 10..Len(issued) : issued[i][4] = 90 + (i - 10)

C4_Witness ==
  /\ pc = "done"
  /\ settled = "record"
  /\ cmd = 12
  /\ sendResult = "threw"
  /\ Len(photoParts) = 3
  /\ record.hasPhoto

\* C5: once SELECT and the 8 field reads succeeded, a failing photo chunk
\* is not fatal: the record is returned with the 8 fields and the chunks
\* read so far; with chunk 0 failing the photo is absent.
C5_PhotoFailureNotFatal ==
  /\ (Len(completed) >= 9 => settled # "error")
  /\ (pc = "done" /\ Len(completed) >= 9 =>
        /\ settled = "record"
        /\ record.citizenId = parseCitizenId(completed[2].data)
        /\ record.nameTh \in { parseThaiText(completed[3].data, b) : b \in BOOLEAN }
        /\ record.nameEn \in { parseThaiText(completed[4].data, b) : b \in BOOLEAN }
        /\ record.birthDate = formatDate(completed[5].data)
        /\ record.gender \in {GENDER_MALE, GENDER_FEMALE}
        /\ record.address \in { parseThaiText(completed[7].data, b) : b \in BOOLEAN }
        /\ record.issueDate = formatDate(completed[8].data)
        /\ record.expireDate = parseExpire(completed[9].data)
        /\ record.photo = Base64(ConcatData(ChunkEntries))
        /\ (Len(completed) = 9 => ~record.hasPhoto))

C5_Witness ==
  /\ pc = "done"
  /\ cmd = 9
  /\ sendResult = "threw"
  /\ settled = "record"
  /\ ~record.hasPhoto
  /\ record.citizenId # <<>>

\* C6: sendAPDU waits the retry delay once after each failed attempt that
\* another attempt follows, and at no other time: 0 waits when attempt 1
\* succeeds, 2 when two attempts fail and the third succeeds, 2 when all 3
\* fail.
C6_RetryWaits ==
  /\ (pc = "send" => waits = sends)
  /\ (pc = "send" /\ sends > 0 => sinceLast = 100)
  /\ (pc = "retryWait" => waits = sends - 1)
  /\ (sendResult = "returned" => waits = sends - 1)
  /\ (sendResult = "threw" => sends = 3 /\ waits = 2)

C6_Witness ==
  /\ sendResult = "returned"
  /\ sends = 3
  /\ waits = 2
  /\ failKinds = {"fault"}

\* C7: sendAPDU makes at most 3 attempts for one command, whatever the
\* failures are; after the third failure it throws an Error that carries
\* the last fault or the last status word and returns no data; it makes no
\* attempt after an attempt that ended acceptably.
C7_BoundedAttempts ==
  /\ sends <= 3
  /\ (sendResult = "threw" =>
        /\ sends = 3
        /\ ~StatusOk(lastOutcome)
        /\ thrown = IF lastOutcome.kind = "fault" THEN lastOutcome.message
                    ELSE STR_APDU_Error \o Hex2(lastOutcome.sw1) \o Hex2(lastOutcome.sw2)
        /\ (completed = <<>> \/ completed[Len(completed)].cmd # cmd))
  /\ (sends > 0 /\ StatusOk(lastOutcome) =>
        pc \in {"pause", "done"} /\ sendResult = "returned")

C7_Witness ==
  /\ sendResult = "threw"
  /\ failKinds = {"result", "fault"}
  /\ lastOutcome.kind = "result"
  /\ sends = 3

\* C8: sendAPDU returns the response data exactly when an attempt ends with
\* status (0x90,0x00) or with sw1 = 0x61; an attempt with any other status
\* is a failed attempt.
C8_ReturnsIffAcceptable ==
  sends > 0 =>
    /\ (sendResult = "returned") <=> StatusOk(lastOutcome)
    /\ (sendResult = "returned" => returned = lastOutcome.data)
    /\ (lastOutcome.kind = "result" /\ ~StatusOk(lastOutcome) =>
          pc \in {"retryWait", "send"} \/ sendResult = "threw")

C8_Witness ==
  /\ sendResult = "returned"
  /\ lastOutcome.sw1 = 97
  /\ lastOutcome.sw2 # 0
  /\ cmd = 2

\* C9: 50 ms are waited between the success of SELECT and the first send of
\* the citizen-ID command, and 30 ms between the success of every later
\* command and the first send of the next one.
C9_PausesBetweenCommands ==
  /\ Len(gaps) = Len(issued)
  /\ \A i \in 2..Len(gaps) : gaps[i] = IF i = 2 THEN 50 ELSE 30

C9_Witness == Len(gaps) >= 11 /\ gaps[2] = 50 /\ gaps[11] = 30
(***************************************************************************)
(* Properties of Card.transmit.                                            *)
(***************************************************************************)
\* the number of GET RESPONSE commands among the commands sent
RECURSIVE GetCount(_)
GetCount(sent) ==
  IF sent = <<>> THEN 0
  ELSE (IF Head(sent)[2] = 192 THEN 1 ELSE 0) + GetCount(Tail(sent))

\* the data of the answers, in order
RECURSIVE AnswerData(_)
AnswerData(resps) ==
  IF resps = <<>> THEN <<>>
  ELSE Head(resps).data \o AnswerData(Tail(resps))

\* C10: an answer (0x61, n) is followed by exactly one GET RESPONSE
\* 00 C0 00 00 n, whose data is appended in order and whose status is
\* evaluated again, for at most maxGetResponse GET RESPONSE commands; past
\* the limit transmit returns the accumulated data with the last status word
\* and raises no fault.
C10_GetResponseChaining ==
  /\ GetCount(txSent) <= txMaxGet
  /\ GetCount(txSent) = txIter
  /\ \A i \in 2..Len(txSent) :
       txSent[i][2] = 192 =>
         txResps[i - 1].sw1 = 97 /\ txSent[i] = <<0, 192, 0, 0, txResps[i - 1].sw2>>
  /\ \A i \in 1..Len(txResps) :
       (txResps[i].kind = "result" /\ txResps[i].sw1 = 97
          /\ GetCount(SubSeq(txSent, 1, i)) < txMaxGet) =>
         IF Len(txSent) > i THEN txSent[i + 1] = <<0, 192, 0, 0, txResps[i].sw2>>
         ELSE txPc = "getResponse"
  /\ txAcc = AnswerData(txResps)
  /\ (txPc = "done" /\ txResps[Len(txResps)].kind = "result" =>
        /\ txResult = "returned"
        /\ txSw = <<txResps[Len(txResps)].sw1, txResps[Len(txResps)].sw2>>)
  /\ (txPc = "done" /\ txResps[Len(txResps)].kind = "result"
        /\ txResps[Len(txResps)].sw1 = 97 => GetCount(txSent) = txMaxGet)

C10_Witness ==
  /\ txPc = "done"
  /\ txResult = "returned"
  /\ txSw = <<97, 5>>
  /\ txMaxGet = 3
  /\ GetCount(txSent) = 3
  /\ Len(txAcc) >= 4
\* the number of commands sent after the first that are not GET RESPONSE
RECURSIVE ReissueCount(_)
ReissueCount(sent) ==
  IF Len(sent) <= 1 THEN 0
  ELSE (IF sent[Len(sent)][2] = 192 THEN 0 ELSE 1)
       + ReissueCount(SubSeq(sent, 1, Len(sent) - 1))

\* C11: when the first exchange of transmit is answered with status
\* (0x90,0x00), transmit makes that one exchange only, sends no GET RESPONSE
\* and returns the data of that answer with the status 9000.
C11_SuccessNoGetResponse ==
  (Len(txResps) >= 1 /\ txResps[1].kind = "result"
     /\ txResps[1].sw1 = 144 /\ txResps[1].sw2 = 0) =>
    /\ Len(txSent) = 1
    /\ txSent[1] = txCommand
    /\ GetCount(txSent) = 0
    /\ txPc = "done"
    /\ txResult = "returned"
    /\ txAcc = txResps[1].data
    /\ txSw = <<144, 0>>

C11_Witness ==
  /\ txPc = "done"
  /\ txResult = "returned"
  /\ Len(txSent) = 1
  /\ txSw = <<144, 0>>
  /\ txAcc = <<1, 0>>

\* C12: after an answer (0x6C, n) transmit sends the original command again
\* with length n, at most once in one call: a card that answers 6Cxx to
\* every exchange gets 2 exchanges and the call returns; an exchange that
\* failed (a fault or an error status) is never sent again.
C12_ReissueAtMostOnce ==
  /\ ReissueCount(txSent) <= 1
  /\ ReissueCount(txSent) = (IF txReissued THEN 1 ELSE 0)
  /\ Len(txSent) <= 1 + txMaxGet + 1
  /\ \A i \in 2..Len(txSent) :
       txSent[i][2] # 192 =>
         /\ txResps[i - 1].kind = "result"
         /\ txResps[i - 1].sw1 = 108
         /\ txSent[i] = [txCommand EXCEPT ![Len(txCommand)] = txResps[i - 1].sw2]
         /\ \A j \in 1..(i - 2) : txResps[j].sw1 # 108
  /\ \A i \in 1..Len(txResps) :
       (txResps[i].kind = "fault"
          \/ txResps[i].sw1 \notin {97, 108}
          \/ (txResps[i].sw1 = 108 /\ \E j \in 1..(i - 1) : txResps[j].sw1 = 108)) =>
         Len(txSent) = i /\ txPc = "done"

C12_Witness ==
  /\ txPc = "done"
  /\ txResult = "returned"
  /\ Len(txSent) = 2
  /\ txResps[1].sw1 = 108
  /\ txResps[2].sw1 = 108
  /\ txSw = <<108, 4>>
(***************************************************************************)
(* Properties of concurrent readCard calls.                                *)
(***************************************************************************)
\* C13 as claimed: while one readCard call is between its connect and its
\* disconnect on a reader, no other call holds a connection to that reader,
\* and the APDUs of two calls never alternate on one reader.
C13_ExclusiveReader ==
  /\ \A s \in Sessions : \A u \in Sessions \ {s} :
       (sesCard[s] = "open" /\ sesCard[u] = "open") => sesReader[s] # sesReader[u]
  /\ \A r \in SesReaders : Len(busOrder[r]) <= 2
(***************************************************************************)
(* Properties of the record built from the raw buffers.                    *)
(***************************************************************************)
\* C14 as claimed: the record's gender is male only when the first byte of
\* the gender buffer is 1 or '1', female only when it is 2 or '2', and a
\* value that is neither male nor female when the buffer is empty or
\* starts with any other byte.
C14_GenderUnknown ==
  (pc = "done" /\ settled = "record") =>
    LET g == fieldData[5] IN
    /\ (record.gender = GENDER_MALE) <=> (g # <<>> /\ g[1] \in {1, 49})
    /\ (record.gender = GENDER_FEMALE) <=> (g # <<>> /\ g[1] \in {2, 50})
FixedMessages ==
  { MSG_NO_CARD, MSG_CARD_NOT_POWERED, MSG_CARD_NOT_RESPONDING, MSG_TIMEOUT,
    MSG_NO_READERS, MSG_GENERIC_ERROR }

\* whether a fault text holds one of the words the catch block looks for
HasKeyword(m) ==
  \/ Includes(m, <<116, 105, 109, 101, 111, 117, 116>>)
  \/ Includes(m, <<112, 111, 119, 101, 114>>)
  \/ Includes(m, <<114, 101, 115, 112, 111, 110, 100>>)
  \/ Includes(m, <<78, 111, 32, 99, 97, 114, 100>>)
  \/ Includes(m, MSG_NO_CARD)

\* C16 as claimed: the Error readCard rejects with always carries one of the
\* fixed category messages, never the text of the underlying fault.
C16_FixedCategories ==
  settled = "error" => errorMessage \in FixedMessages

\* C16 as amended: a failure before connect carries the no-reader or the
\* no-card message, or the text of the fault of listReaders or getStatus,
\* unchanged; a failure after it carries the timeout, not-powered,
\* not-responding or no-card message when the fault text holds the matching
\* word, and otherwise the fault text itself, unchanged; SELECT failing with
\* a bad status carries 'APDU Error: SW=' and the status word.
C16_ClassifiedOrPassedThrough ==
  settled = "error" =>
    /\ (caught = <<>> /\ escaped = "none" =>
          errorMessage \in {MSG_NO_READERS, MSG_NO_CARD} /\ connectCalls = 0)
    /\ (escaped # "none" =>
          caught = <<>> /\ errorMessage \in FaultMessages /\ connectCalls = 0)
    /\ (caught # <<>> /\ HasKeyword(caught) =>
          errorMessage \in {MSG_TIMEOUT, MSG_CARD_NOT_POWERED,
                            MSG_CARD_NOT_RESPONDING, MSG_NO_CARD})
    /\ (caught # <<>> /\ ~HasKeyword(caught) => errorMessage = caught)
    /\ (sendResult = "threw" => caught = thrown)
    /\ (cmd = 0 /\ sendResult = "threw" /\ lastOutcome.kind = "result" =>
          errorMessage = STR_APDU_Error \o Hex2(lastOutcome.sw1) \o Hex2(lastOutcome.sw2))

C16_Witness ==
  /\ settled = "error"
  /\ cmd = 0
  /\ sendResult = "threw"
  /\ errorMessage = <<65, 80, 68, 85, 32, 69, 114, 114, 111, 114, 58, 32, 83, 87,
                      61, 57, 48, 48, 49>>
\* the time waited, at the least, before the i-th command was first sent:
\* the pauses and retry waits at their nominal length
RECURSIVE WaitedBefore(_)
WaitedBefore(i) == IF i = 0 THEN 0 ELSE gaps[i] + WaitedBefore(i - 1)

\* C17 as claimed: once the time spent in the session reaches the
\* configured timeout no further APDU is sent, and the session fails with
\* the timeout message.
C17_SessionTimeout ==
  /\ \A i \in 1..Len(issued) : WaitedBefore(i) < timeout
  /\ (pc = "done" /\ settled = "record" =>
        WaitedBefore(Len(issued)) + sinceLast < timeout)
(***************************************************************************)
(* Properties of the steps of readCard before the read.                    *)
(***************************************************************************)
\* whether the reader name r matches the hint h: equal, r contains h, or h
\* contains r
Matches(r, h) ==
  \/ r = h
  \/ \E i \in 0..(Len(r) - Len(h)) : SubSeq(r, i + 1, i + Len(h)) = h
  \/ \E i \in 0..(Len(h) - Len(r)) : SubSeq(h, i + 1, i + Len(r)) = r

\* C18: getStatus comes first; waitForCard is called at most once, only
\* after getStatus, with min(5000, timeout) ms; connect is called only after
\* them, and APDUs are sent only on a connected card; when the wait ends
\* with no card or with a fault, readCard fails with the no-card message,
\* connect is not called and no APDU is sent.
C18_WaitThenConnect ==
  /\ Len(statusArgs) <= 1
  /\ Len(waitArgs) <= 1
  /\ Len(connectArgs) <= 1
  /\ (waitArgs # <<>> => statusArgs # <<>>)
  /\ (connectArgs # <<>> => statusArgs # <<>>)
  /\ (pc = "waitCard" => connectArgs = <<>> /\ waitArgs = <<>>)
  /\ (issued # <<>> => connectArgs # <<>> /\ connectCalls = 1)
  /\ \A i \in 1..Len(waitArgs) :
       /\ waitArgs[i][2] = (IF timeout < 5000 THEN timeout ELSE 5000)
       /\ waitArgs[i][2] <= 5000
  /\ (pc = "done" /\ waitArgs # <<>> /\ connectArgs = <<>> =>
        /\ settled = "error"
        /\ errorMessage = MSG_NO_CARD
        /\ connectCalls = 0
        /\ channel = "none"
        /\ issued = <<>>)
  /\ (settled = "error" /\ caught = <<>> /\ errorMessage = MSG_NO_CARD =>
        Len(waitArgs) = 1 /\ connectArgs = <<>> /\ issued = <<>>)

C18_Witness ==
  /\ pc = "done"
  /\ timeout = 30000
  /\ waitArgs = << <<ReaderZ, 5000>> >>
  /\ connectArgs = <<>>
  /\ errorMessage = MSG_NO_CARD

\* C19: with an empty reader list, or with a hint that matches no listed
\* reader, readCard fails with the no-reader message and calls neither
\* getStatus nor waitForCard nor connect, and sends no APDU.
C19_NoReaderAvailable ==
  (pc # "start" /\ escaped # "listReaders"
     /\ (readers = <<>>
           \/ (hint # <<>> /\ \A i \in 1..Len(readers) : ~Matches(readers[i], hint)))) =>
    /\ pc = "done"
    /\ settled = "error"
    /\ errorMessage = MSG_NO_READERS
    /\ selectedReader = <<>>
    /\ statusArgs = <<>>
    /\ waitArgs = <<>>
    /\ connectArgs = <<>>
    /\ connectCalls = 0
    /\ issued = <<>>

C19_Witness ==
  /\ pc = "done"
  /\ readers = <<ReaderZ, ReaderAB>>
  /\ hint = ReaderQ
  /\ errorMessage = MSG_NO_READERS
  /\ statusArgs = <<>>

\* C20: the selected reader is a reader of the list: the first one without
\* a hint, and with a hint the first one in list order that matches it;
\* getStatus, waitForCard and connect are all called with that reader.
C20_ReaderSelection ==
  /\ (selectedReader # <<>> =>
        \E i \in 1..Len(readers) :
          /\ readers[i] = selectedReader
          /\ (hint = <<>> => i = 1)
          /\ (hint # <<>> =>
                /\ Matches(readers[i], hint)
                /\ \A j \in 1..(i - 1) : ~Matches(readers[j], hint)))
  /\ (pc # "start" /\ escaped # "listReaders" /\ readers # <<>>
        /\ (hint = <<>> \/ \E i \in 1..Len(readers) : Matches(readers[i], hint)) =>
        selectedReader # <<>> /\ statusArgs = <<selectedReader>>)
  /\ \A i \in 1..Len(statusArgs) : statusArgs[i] = selectedReader
  /\ \A i \in 1..Len(waitArgs) : waitArgs[i][1] = selectedReader
  /\ \A i \in 1..Len(connectArgs) : connectArgs[i] = selectedReader

C20_Witness ==
  /\ hint = ReaderB
  /\ selectedReader = ReaderAB
  /\ statusArgs = <<ReaderAB>>
  /\ waitArgs = << <<ReaderAB, 1000>> >>
  /\ connectArgs = <<ReaderAB>>
  /\ channel = "open"
(***************************************************************************)
(* Properties of the constructor options.                                  *)
(***************************************************************************)
\* C21 as claimed: when the reader was constructed with the option
\* readerName and readCard is called with no argument, the selected reader
\* is the one the option names; the first reader is used only when no name
\* was given at all.
C21_OptionReaderUsed ==
  (selectedReader # <<>> /\ hint = <<>>) =>
    selectedReader = (IF optReader # <<>> THEN optReader ELSE readers[1])
(***************************************************************************)
(* Properties of formatDate.                                               *)
(***************************************************************************)
\* the character of a byte decoded as ASCII: the byte itself below 0x80
AsciiChar(byte) == IF byte < 128 THEN byte ELSE byte - 128

\* C22: formatDate returns '' for a buffer shorter than 8 bytes; for a
\* buffer of 8 bytes or more it returns 10 characters: bytes 0-3, '-',
\* bytes 4-5, '-', bytes 6-7, whatever follows the eighth byte; "20240115"
\* gives "2024-01-15".
C22_FormatDate ==
  fnPc = "done" =>
    /\ (Len(fnIn) < 8 => fnOut = <<>>)
    /\ (Len(fnIn) >= 8 =>
          fnOut = << AsciiChar(fnIn[1]), AsciiChar(fnIn[2]), AsciiChar(fnIn[3]),
                     AsciiChar(fnIn[4]), 45, AsciiChar(fnIn[5]), AsciiChar(fnIn[6]),
                     45, AsciiChar(fnIn[7]), AsciiChar(fnIn[8]) >>)
    /\ (Len(fnIn) >= 8 /\ SubSeq(fnIn, 1, 8) = <<50, 48, 50, 52, 48, 49, 49, 53>> =>
          fnOut = <<50, 48, 50, 52, 45, 48, 49, 45, 49, 53>>)

C22_Witness ==
  /\ fnPc = "done"
  /\ fnIn = <<50, 48, 50, 52, 48, 49, 49, 53, 57, 57>>
  /\ fnOut = <<50, 48, 50, 52, 45, 48, 49, 45, 49, 53>>

\* C23 as claimed: a non-empty result of formatDate has the shape
\* DDDD-DD-DD, D a decimal digit; a buffer of 8 bytes or more whose first 8
\* bytes are not all digits gives ''.
C23_DateDigitsOnly ==
  (fnPc = "done" /\ fnOut # <<>>) =>
    /\ Len(fnOut) = 10
    /\ \A i \in {1, 2, 3, 4, 6, 7, 9, 10} : fnOut[i] \in 48..57
    /\ fnOut[5] = 45
    /\ fnOut[8] = 45
    /\ \A i \in 1..8 : fnIn[i] \in 48..57
\* C24: the record's expiry is the lifetime sentinel exactly when the expiry
\* buffer is non-empty and starts with 0x00, whatever follows; otherwise it
\* is what formatDate gives for the buffer: '' for a buffer shorter than 8
\* bytes, the empty one included, and the dashed 10 characters otherwise.
C24_ExpirySentinel ==
  (pc = "done" /\ settled = "record" /\ Len(fieldData) = 8) =>
    LET e == fieldData[8]
        lifetime == e # <<>> /\ e[1] = 0
    IN /\ (record.expireDate = <<3605, 3621, 3629, 3604, 3594, 3637, 3614>>) <=> lifetime
       /\ (~lifetime /\ Len(e) < 8 => record.expireDate = <<>>)
       /\ (~lifetime /\ Len(e) >= 8 =>
             record.expireDate =
               << AsciiChar(e[1]), AsciiChar(e[2]), AsciiChar(e[3]), AsciiChar(e[4]),
                  45, AsciiChar(e[5]), AsciiChar(e[6]), 45, AsciiChar(e[7]),
                  AsciiChar(e[8]) >>)

C24_Witness ==
  /\ pc = "done"
  /\ settled = "record"
  /\ fieldData[8] = <<0, 0, 0, 0, 0, 0, 0, 0>>
  /\ record.expireDate = EXPIRE_LIFETIME
  /\ Len(record.issueDate) = 10
(***************************************************************************)
(* Properties of parseThaiText.                                            *)
(***************************************************************************)
\* the position of the last byte of b that is neither 0x00 nor 0x23; 0 when
\* there is none
LastDataByte(b) ==
  LET S == { i \in 1..Len(b) : b[i] \notin {0, 35} } IN
  IF S = {} THEN 0 ELSE CHOOSE i \in S : \A j \in S : j <= i

\* the number of '#' in a sequence
HashCount(s) == Cardinality({ i \in 1..Len(s) : s[i] = 35 })

\* C25: parseThaiText takes every 0x00 and 0x23 off the tail of the buffer,
\* in any mix, and nothing else: the result is the one of the buffer cut
\* after its last non-padding byte, every '#' before that byte is still in
\* the result, and a buffer of 0x00 and 0x23 only, the empty one included,
\* gives ''.
C25_TrailingPadding ==
  fnPc \in {"table", "fallback"} =>
    LET k == LastDataByte(fnIn) IN
    /\ (k = 0 => fnOut = <<>>)
    /\ fnOut = parseThaiText(SubSeq(fnIn, 1, k), fnPc = "fallback")
    /\ HashCount(fnOut) = HashCount(SubSeq(fnIn, 1, k))

C25_Witness ==
  /\ fnPc = "table"
  /\ fnIn = <<35, 65, 0>>
  /\ fnOut = <<35, 65>>
\* the bytes TIS-620 defines above 0x7F: 0xA1-0xDA and 0xDF-0xFB
Tis620Defined == (161..218) \cup (223..251)

\* the Thai block, U+0E00-U+0E7F
ThaiBlock == 3584..3711

\* C26 as claimed: for a buffer whose bytes all lie in 0xA1-0xFB the result
\* holds only characters of the Thai block and ASCII, on both paths.
C26_ThaiBlockOnly ==
  (fnPc \in {"table", "fallback"} /\ \A i \in 1..Len(fnIn) : fnIn[i] \in 161..251) =>
    \A i \in 1..Len(fnOut) : fnOut[i] \in ThaiBlock \cup (0..127)

\* C26 as amended: parseThaiText returns on every buffer; for a buffer whose
\* bytes all lie in 0xA1-0xDA or 0xDF-0xFB the result holds one character
\* of the Thai block per byte, on both paths; on the fallback path this is
\* so for all bytes in 0xA1-0xFB; on the table-based path every byte
\* TIS-620 leaves undefined (0xDB-0xDE among them) gives U+FFFD.
C26_DefinedBytesThaiBlock ==
  fnPc \in {"table", "fallback"} =>
    /\ ((\A i \in 1..Len(fnIn) : fnIn[i] \in Tis620Defined) =>
          /\ Len(fnOut) = Len(fnIn)
          /\ \A i \in 1..Len(fnOut) : fnOut[i] \in ThaiBlock)
    /\ ((fnPc = "fallback" /\ \A i \in 1..Len(fnIn) : fnIn[i] \in 161..251) =>
          /\ Len(fnOut) = Len(fnIn)
          /\ \A i \in 1..Len(fnOut) : fnOut[i] \in ThaiBlock)
    /\ (fnPc = "table" =>
          ((\E i \in 1..Len(fnOut) : fnOut[i] = 65533)
             <=> (\E i \in 1..LastDataByte(fnIn) :
                    fnIn[i] >= 128 /\ fnIn[i] \notin Tis620Defined)))
    /\ (fnPc = "fallback" => \A i \in 1..Len(fnOut) : fnOut[i] # 65533)

C26_Witness ==
  /\ fnPc = "table"
  /\ fnIn = <<161, 251>>
  /\ fnOut = <<3585, 3675>>
\* what C27 says the fallback path emits for one byte
ClaimedFallbackChar(byte) ==
  IF byte \in (32..126) \cup {10, 13} THEN <<byte>>
  ELSE IF byte \in 161..251 THEN <<3584 + (byte - 161)>>
  ELSE <<>>

RECURSIVE ClaimedFallback(_)
ClaimedFallback(b) ==
  IF b = <<>> THEN <<>>
  ELSE ClaimedFallbackChar(Head(b)) \o ClaimedFallback(Tail(b))

\* C27: on the fallback path the bytes are taken in order; a byte below
\* 0x80 is emitted only if it is printable (0x20-0x7E) or 0x0A or 0x0D, a
\* byte in 0xA1-0xFB gives one character at a fixed offset into the Thai
\* block, every other byte (0x7F among them) gives nothing, and the result
\* has no whitespace at either end.
C27_FallbackRules ==
  fnPc = "fallback" =>
    /\ fnOut = Trim(ClaimedFallback(SubSeq(fnIn, 1, LastDataByte(fnIn))))
    /\ \A i \in 1..Len(fnOut) : fnOut[i] # 127
    /\ (fnOut # <<>> =>
          ~IsWhiteSpace(fnOut[1]) /\ ~IsWhiteSpace(fnOut[Len(fnOut)]))

\* C28: the two decode paths agree: on a buffer of printable ASCII and
\* bytes TIS-620 defines, the path taken returns what the other path
\* returns, a defined byte b giving U+0E00 + (b - 0xA0) on either.
C28_PathsAgree ==
  (/\ fnPc \in {"table", "fallback"}
   /\ \A i \in 1..Len(fnIn) : fnIn[i] \in (32..126) \cup Tis620Defined) =>
    /\ fnOut = parseThaiText(fnIn, fnPc = "table")
    /\ \A b \in Tis620Defined : fnIn = <<b>> => fnOut = <<3584 + (b - 160)>>
\* C29: readCard produces a record only if SELECT and the 8 field reads
\* each ended with an acceptable status; when SELECT or a field read has
\* failed on its last attempt, that command is the last one issued on the
\* channel, no record is produced and readCard has failed.
C29_RecordNeedsAllFields ==
  /\ settled = "record" =>
        /\ Len(completed) >= NUM_FIELDS + 1
        /\ \A i \in 1..(NUM_FIELDS + 1) :
             /\ i <= Len(completed)
             /\ completed[i].cmd = i - 1
        /\ Len(fieldData) = NUM_FIELDS
  /\ (sendResult = "threw" /\ cmd <= NUM_FIELDS) =>
        /\ sends = MAX_RETRIES
        /\ Len(issued) = cmd + 1
        /\ Len(completed) = cmd
        /\ pc = "done"
        /\ settled = "error"
        /\ record = NoRecord
        /\ channel = "closed"

C29_Witness ==
  /\ pc = "done"
  /\ sendResult = "threw"
  /\ cmd = 5
  /\ settled = "error"
  /\ Len(issued) = 6
  /\ record = NoRecord
\* the events of a Card in the order of its life
CardLife(s) ==
  << [by |-> s, ev |-> "connect"],
     [by |-> s, ev |-> "transmit"],
     [by |-> s, ev |-> "disconnect"] >>

\* C30: under every interleaving of the concurrent readCard calls, the
\* events on each Card are connect, then transmits, then disconnect: no
\* APDU is transmitted on a Card before connect returned it or after its
\* disconnect, and every event on a Card is made by the call that
\* connected it.
C30_ChannelEventOrder ==
  \A s \in Sessions :
    /\ Len(sesLog[s]) <= 3
    /\ sesLog[s] = SubSeq(CardLife(s), 1, Len(sesLog[s]))
    /\ (sesCard[s] = "none" <=> sesLog[s] = <<>>)
    /\ (sesCard[s] = "open" <=> Len(sesLog[s]) \in {1, 2})
    /\ (sesCard[s] = "closed" <=> Len(sesLog[s]) = 3)
    /\ (sesPc[s] \in {"connectedDelay", "send", "retryWait", "pause"} =>
          sesCard[s] = "open")
    /\ (sesPc[s] = "done" => sesCard[s] # "open")
    /\ \A r \in SesReaders :
         (\E i \in 1..Len(busOrder[r]) : busOrder[r][i] = s) =>
           (r = sesReader[s] /\ Len(sesLog[s]) >= 2)

C30_Witness ==
  /\ sesReader[1] = sesReader[2]
  /\ sesLog[1] = CardLife(1)
  /\ sesLog[2] = SubSeq(CardLife(2), 1, 2)
  /\ sesPc[2] = "retryWait"
  /\ busOrder[sesReader[1]] = <<1, 2, 1>>
(***************************************************************************)
(* Properties of the number of channel calls of one readCard.              *)
(***************************************************************************)
\* the most card.transmitWithRetry calls one readCard makes: 3 * (1 + 8 + 20)
MaxTransmitCalls == MAX_RETRIES * (1 + NUM_FIELDS + PHOTO_PARTS)

\* the calls are within the budget: at most 3 for the command being sent,
\* at most 3 for each command before it, chunk indexes within 0..19
C31_WithinBudget ==
  /\ budPerCmd <= MAX_RETRIES
  /\ budCmd <= NUM_FIELDS + PHOTO_PARTS
  /\ budCalls <= MAX_RETRIES * budCmd + budPerCmd
  /\ budCalls <= MaxTransmitCalls
  /\ budChunks \subseteq 0..(PHOTO_PARTS - 1)

\* C31: provided every channel call returns or throws, readCard always
\* terminates, and it makes at most 87 transmitWithRetry calls: at most 3
\* for each of SELECT and the 8 fields and at most 3 for each of at most
\* 20 photo chunks, whose indexes are within 0..19.
C31_TerminatesWithinBudget ==
  /\ []C31_WithinBudget
  /\ <>(budPc = "done")

C31_Witness ==
  /\ budPc = "done"
  /\ budCalls = 87
  /\ budChunks = 0..19
(***************************************************************************)
(* Properties of the finally block and of the catch block of readCard.    *)
(***************************************************************************)
\* C32: a fault raised by disconnect is swallowed and never changes the
\* outcome of readCard: a read that produced a record still settles with
\* that record, and a read that failed still settles with the error of
\* the read, classified by the catch block.
C32_DisconnectFaultSwallowed ==
  disconnectThrew =>
    /\ pc = "done"
    /\ channel = "closed"
    /\ disconnectCalls = 1
    /\ \/ /\ settled = "record"
          /\ caught = <<>>
          /\ errorMessage = <<>>
          /\ Len(fieldData) = NUM_FIELDS
          /\ \E iconvThrows \in BOOLEAN :
               record = BuildRecord(fieldData, photoParts, iconvThrows)
       \/ /\ settled = "error"
          /\ caught # <<>>
          /\ errorMessage = ClassifyError(caught)
          /\ record = NoRecord

C32_Witness ==
  /\ disconnectThrew
  /\ settled = "error"
  /\ cmd = 0
  /\ errorMessage = MSG_TIMEOUT
\* the rules of the catch block, in their order: keywords and message
ClassifyRules ==
  << [keys |-> {STR_timeout}, msg |-> MSG_TIMEOUT],
     [keys |-> {STR_unpowered, STR_power}, msg |-> MSG_CARD_NOT_POWERED],
     [keys |-> {STR_unresponsive, STR_respond}, msg |-> MSG_CARD_NOT_RESPONDING],
     [keys |-> {STR_No_card, MSG_NO_CARD}, msg |-> MSG_NO_CARD] >>

\* the rules a text matches
RulesMatching(text) ==
  { i \in 1..Len(ClassifyRules) : \E k \in ClassifyRules[i].keys : Includes(text, k) }

\* the text the catch block classifies: error.message || String(error)
CaughtText == IF fnPc = "caughtError" THEN ErrorText(fnIn) ELSE fnIn

\* C33: the catch block takes the first rule, in the order timeout,
\* card-not-powered, card-not-responding, no-card, that the text of the
\* fault matches; a text matching several rules takes the earliest; a
\* text matching none is passed through, and the generic message is used
\* if the text is empty.
C33_FirstMatchingRule ==
  fnPc \in {"caughtError", "caughtValue"} =>
    LET hits == RulesMatching(CaughtText) IN
    /\ \A i \in hits :
         (\A j \in hits : i <= j) => fnOut = ClassifyRules[i].msg
    /\ (hits = {} /\ CaughtText # <<>>) => fnOut = CaughtText
    /\ (hits = {} /\ CaughtText = <<>>) => fnOut = MSG_GENERIC_ERROR

C33_Witness ==
  /\ fnPc = "caughtError"
  /\ fnIn = STR_No_card \o <<32>> \o STR_timeout \o <<32>>
  /\ RulesMatching(CaughtText) = {1, 4}
  /\ fnOut = MSG_TIMEOUT
(***************************************************************************)
(* Properties of loadBinding.                                              *)
(***************************************************************************)
\* the path of a binary in the package directory
PathOf(name) == Join(PackageRoot, name)

\* the paths given to require so far, in order
RequiredPaths == [i \in 1..Len(ldLog) |-> ldLog[i].binding]

\* the musl binary part_000 selects for an architecture
MuslBinaryFor(arch) ==
  IF arch = "arm64" THEN BIN_LINUX_ARM64_MUSL ELSE BIN_LINUX_X64_MUSL

OnDisk(path) == path \in ldExists

\* how many candidates the for loop has examined
ExaminedCount ==
  IF ldPc \in {"idle", "detect"} THEN 0
  ELSE IF ldPc = "search" \/ ldThrown = "cannot find" THEN ldIndex - 1
  ELSE ldIndex

\* C35: loadBinding examines the candidates strictly in list order,
\* the development builds first, then the preferred binary of the
\* platform, arch and libc, then the fallbacks; require is called only on
\* candidates that exist on disk; the first candidate that loads is
\* returned and no later candidate is touched; on glibc Linux the
\* preferred gnu binary precedes every musl binary.
C35_CandidateOrder ==
  ldPc \notin {"idle", "detect"} =>
    /\ Len(ldBindings) >= 2
    /\ ldBindings[1] = PathOf(BIN_DEV)
    /\ ldBindings[2] = PathOf(BIN_INDEX)
    /\ (PlatformBinary(ldPlatform, ldArch, ldIsMusl) # <<>> =>
          ldBindings[3] = PathOf(PlatformBinary(ldPlatform, ldArch, ldIsMusl)))
    /\ ExaminedCount <= Len(ldBindings)
    /\ RequiredPaths = SelectSeq(SubSeq(ldBindings, 1, ExaminedCount), OnDisk)
    /\ \A i \in 1..Len(ldLog) :
         (ldLog[i].then # "continue") => i = Len(ldLog)
    /\ (ldPc \in {"returned", "cached"} =>
          /\ ldLog # <<>>
          /\ ldLog[Len(ldLog)].then = "return"
          /\ nativeBinding = ldLog[Len(ldLog)].binding
          /\ nativeBinding = ldBindings[ldIndex]
          /\ ldReturned = nativeBinding)
    /\ ((ldPlatform = "linux" /\ ~ldIsMusl) =>
          /\ Includes(ldBindings[3], STR_gnu_node)
          /\ \A i \in 1..Len(ldBindings) :
               Includes(ldBindings[i], STR_musl_node) => i > 3)

C35_Witness ==
  /\ ldPlatform = "linux"
  /\ ~ldIsMusl
  /\ ldArch = "arm64"
  /\ ldExists = { PathOf(BIN_LINUX_ARM64_GNU), PathOf(BIN_LINUX_X64_MUSL) }
  /\ ldPc = "returned"
  /\ RequiredPaths = << PathOf(BIN_LINUX_ARM64_GNU) >>
  /\ nativeBinding = PathOf(BIN_LINUX_ARM64_GNU)
\* C36: when require of an existing candidate fails in the loader of
\* part_000, the candidate is skipped and the search goes on exactly when
\* the platform is Linux, the candidate is a '-gnu.node' binary and the
\* error reports a missing glibc linker or a shared-library load error;
\* on every other failure loadBinding throws at once and no later
\* candidate is tried.
C36_SkipOrThrow ==
  ldVersion = "part_000" =>
    \A i \in 1..Len(ldLog) :
      ldLog[i].error # <<>> =>
        LET skipCase ==
              /\ ldPlatform = "linux"
              /\ Includes(ldLog[i].binding, STR_gnu_node)
              /\ \/ Includes(ldLog[i].error, STR_ld_linux_x86_64)
                 \/ Includes(ldLog[i].error, STR_ld_linux_aarch64)
                 \/ Includes(ldLog[i].error, STR_Error_loading)
        IN /\ ldLog[i].then \in {"continue", "throw"}
           /\ (ldLog[i].then = "continue" <=> skipCase)
           /\ (ldLog[i].then = "throw" =>
                 /\ i = Len(ldLog)
                 /\ ldPc = "threw"
                 /\ ldThrown \in {"failed", "rethrown"}
                 /\ nativeBinding = <<>>
                 /\ ldBindings[ldIndex] = ldLog[i].binding)

C36_Witness ==
  /\ ldVersion = "part_000"
  /\ ldPlatform = "linux"
  /\ ldPc = "threw"
  /\ Len(ldLog) = 2
  /\ ldLog[1] = [binding |-> PathOf(BIN_LINUX_X64_GNU), error |-> ERR_NO_X86_LINKER,
                  then |-> "continue"]
  /\ ldLog[2] = [binding |-> PathOf(BIN_LINUX_X64_MUSL), error |-> ERR_NO_X86_LINKER,
                  then |-> "throw"]
\* whether a require call of this loadBinding ended the way given
SomeRequire(how) == \E i \in 1..Len(ldLog) : ldLog[i].then = how

\* C37: loadBinding returns a loaded binding that is not null, or it
\* throws; when no candidate exists on disk or every existing candidate
\* was skipped it throws 'Cannot find native binding' with the whole list
\* of paths; the module variable nativeBinding is not null exactly after
\* a load that succeeded.
C37_ReturnsBindingOrThrows ==
  /\ ldPc \in {"returned", "cached"} =>
        /\ ldReturned # <<>>
        /\ ldReturned = nativeBinding
        /\ ldReturned \in ldExists
        /\ ldThrown = "none"
  /\ ldPc = "threw" =>
        /\ ldReturned = <<>>
        /\ ldThrown \in {"cannot find", "failed", "rethrown"}
        /\ (ldThrown = "cannot find" <=> ~SomeRequire("throw"))
        /\ (ldThrown = "cannot find" =>
              /\ ldTried = ldBindings
              /\ \A i \in 1..Len(ldBindings) :
                   OnDisk(ldBindings[i]) =>
                     \E j \in 1..Len(ldLog) :
                       /\ ldLog[j].binding = ldBindings[i]
                       /\ ldLog[j].then = "continue")
  /\ ldPc \notin {"returned", "cached", "threw"} => (ldReturned = <<>> /\ ldThrown = "none")
  /\ (nativeBinding # <<>> <=> SomeRequire("return"))
  /\ (nativeBinding # <<>> <=> ldPc \in {"returned", "cached"})

C37_Witness ==
  /\ ldPc = "threw"
  /\ ldThrown = "cannot find"
  /\ ldExists = { PathOf(BIN_LINUX_X64_GNU) }
  /\ ldLog # <<>>
  /\ ldTried = ldBindings
  /\ nativeBinding = <<>>
=============================================================================
